---- MODULE Spec2Model ----
(***************************************************************************)
(* Requirement index and deep validation engine of precept (rigr).        *)
(*                                                                         *)
(* Ids are modelled by the integers 1..NumIds: fixed-width ids such as    *)
(* REQ001, REQ002, ... compare lexicographically as their numbers do.      *)
(*                                                                         *)
(* Spec       the index under upsert / removeByFile                        *)
(* SpecCycle  the cycle detectors applied to bounded record lists          *)
(* SpecMinimal  findMinimalCycle applied to bounded record lists           *)
(* SpecCoverage, SpecOrphan, ...  one analyzer each, applied to bounded    *)
(*            lists of full records                                        *)
(* SpecTraversal  the component search, the chain trace and the          *)
(*            dependency chain on lists with cycles and dangling links     *)
(* SpecSnapshot, SpecLoad  the index cache saved and loaded                *)
(* SpecManager  the debounced save of the IndexCacheManager                *)
(* SpecIds    generateNextId applied to bounded lists of ids               *)
(***************************************************************************)
EXTENDS Integers, Sequences, FiniteSets, TLC

VARIABLES
    index,      \* the RequirementIndex aggregate
    lastOp,     \* the last index operation and its input
    lastFault,  \* the duplicate-id fault reported by the last operation
    reqs,       \* the record list handed to an analyzer
    pc,         \* position of the analysis run
    cycles,     \* result of the Tarjan based detectCircularDependencies
    dfsCycles,  \* result of the DFS based detectCircularDependencies
    minArgs,    \* arguments (fromId, toId) of findMinimalCycle
    minCycle,   \* result of findMinimalCycle
    cfg,        \* configuration and arguments of the analyzer call
    out,        \* result of the analyzer call
    workspace,  \* the files of the workspace: the index cache and the RST files
    manager     \* the IndexCacheManager, its timers and the clock

idxVars == <<index, lastOp, lastFault>>
cycVars == <<reqs, pc, cycles, dfsCycles, minArgs, minCycle>>
anaVars == <<cfg, out>>
cacheVars == <<workspace, manager>>
vars == <<index, lastOp, lastFault, reqs, pc, cycles, dfsCycles, minArgs, minCycle, cfg, out,
          workspace, manager>>

(***************************************************************************)
(* Bounds                                                                  *)
(***************************************************************************)
NumIndexIds == 2
NumIds == 3
MaxEdges == 4

IndexIds == 1..NumIndexIds
Ids == 1..NumIds
LinkTypeOrder == <<"links", "satisfies">>
LinkTypes == {LinkTypeOrder[i] : i \in DOMAIN LinkTypeOrder}
Files == {"requirements.rst", "index.rst"}
NULL == [none |-> TRUE]
None == "none"

NoLinks == [lt \in LinkTypes |-> <<>>]

SeqToSet(s) == {s[i] : i \in DOMAIN s}

\* Object.values(req.links) flattened: every target of every link type,
\* link types in key order.
RECURSIVE FlattenLinks(_, _)
FlattenLinks(links, i) ==
    IF i > Len(LinkTypeOrder) THEN <<>>
    ELSE links[LinkTypeOrder[i]] \o FlattenLinks(links, i + 1)

AllTargets(links) == FlattenLinks(links, 1)

(***************************************************************************)
(* Record Model and Index Builder                                          *)
(***************************************************************************)
Types == {"requirement", "design_element"}
Levels == {"system", "component"}
Statuses == {"draft", "approved"}
Baselines == {"v1.0.0"}

\* The (type, level, status, baseline) combinations of the records fed to
\* the index; None is an absent optional field.
Profiles ==
    { [type |-> "requirement", level |-> "system", status |-> "draft",
       baseline |-> None, linkType |-> "satisfies"],
      [type |-> "design_element", level |-> "component", status |-> "approved",
       baseline |-> "v1.0.0", linkType |-> "links"] }

\* Link maps of the records fed to the index: no link, or one link to one
\* id (which may or may not be indexed) under the link type of the profile.
IndexLinkChoices(p) ==
    {NoLinks} \cup
    { [lt \in LinkTypes |-> IF lt = p.linkType THEN <<b>> ELSE <<>>] : b \in IndexIds }

RecordPool ==
    UNION { { [id |-> i, file |-> f, type |-> p.type, level |-> p.level,
               status |-> p.status, baseline |-> p.baseline, links |-> l] :
                i \in IndexIds, f \in Files, l \in IndexLinkChoices(p) } : p \in Profiles }

EmptyIndex ==
    [ objects    |-> [i \in IndexIds |-> NULL],
      fileIndex  |-> [f \in Files |-> {}],
      typeIndex  |-> [t \in Types |-> {}],
      levelIndex |-> [l \in Levels |-> {}],
      statusIndex |-> [s \in Statuses |-> {}],
      linkGraph  |-> [i \in IndexIds |-> {}],
      baselines  |-> [b \in Baselines |-> {}] ]

\* Registers the links of one record in linkGraph, in both directions.
AddLinksForwardOnly(lg, req) ==
    [i \in IndexIds |-> IF i = req.id THEN lg[i] \cup SeqToSet(AllTargets(req.links)) ELSE lg[i]]

AddLinks(lg, req) ==
    [i \in IndexIds |->
        lg[i] \cup (IF i = req.id THEN SeqToSet(AllTargets(req.links)) ELSE {})
              \cup (IF i \in SeqToSet(AllTargets(req.links)) THEN {req.id} ELSE {})]

\* linkGraph as contributed by the records currently held.
RECURSIVE LinkGraphFrom(_, _)
LinkGraphFrom(objects, i) ==
    IF i > NumIndexIds THEN [j \in IndexIds |-> {}]
    ELSE LET rest == LinkGraphFrom(objects, i + 1)
         IN IF objects[i] = NULL THEN rest ELSE AddLinks(rest, objects[i])

LinkGraphOf(objects) == LinkGraphFrom(objects, 1)

Without(ix, key, id) == [k \in DOMAIN ix |-> IF k = key THEN ix[k] \ {id} ELSE ix[k]]
With(ix, key, id) == [k \in DOMAIN ix |-> IF k = key THEN ix[k] \cup {id} ELSE ix[k]]

\* Unwinds one record: primary map, every secondary index, both directions
\* of its linkGraph contribution.
removeRecordStale(ix, id) ==
    LET objs == [ix.objects EXCEPT ![id] = NULL]
    IN [ix EXCEPT !.objects = objs, !.linkGraph = LinkGraphOf(objs)]

removeRecord(ix, id) ==
    LET old == ix.objects[id]
        objs == [ix.objects EXCEPT ![id] = NULL]
    IN IF old = NULL THEN ix
       ELSE [ objects    |-> objs,
              fileIndex  |-> Without(ix.fileIndex, old.file, id),
              typeIndex  |-> Without(ix.typeIndex, old.type, id),
              levelIndex |-> Without(ix.levelIndex, old.level, id),
              statusIndex |-> Without(ix.statusIndex, old.status, id),
              linkGraph  |-> LinkGraphOf(objs),
              baselines  |-> Without(ix.baselines, old.baseline, id) ]

addRecord(ix, rec) ==
    LET objs == [ix.objects EXCEPT ![rec.id] = rec]
    IN [ objects    |-> objs,
         fileIndex  |-> With(ix.fileIndex, rec.file, rec.id),
         typeIndex  |-> With(ix.typeIndex, rec.type, rec.id),
         levelIndex |-> With(ix.levelIndex, rec.level, rec.id),
         statusIndex |-> With(ix.statusIndex, rec.status, rec.id),
         linkGraph  |-> LinkGraphOf(objs),
         baselines  |-> With(ix.baselines, rec.baseline, rec.id) ]

\* upsert(record): insert or replace by id, last write wins.
upsertFirstWins(ix, rec) ==
    IF ix.objects[rec.id] = NULL THEN addRecord(ix, rec) ELSE ix

upsert(ix, rec) == addRecord(removeRecord(ix, rec.id), rec)

\* The duplicate-id fault of an upsert: the id is held by a record of a
\* different source file.
duplicateFault(ix, rec) ==
    LET old == ix.objects[rec.id]
    IN IF old # NULL /\ old.file # rec.file
       THEN [id |-> rec.id, file |-> rec.file, otherFile |-> old.file]
       ELSE NULL

RECURSIVE removeAll(_, _)
removeAll(ix, ids) ==
    IF ids = {} THEN ix
    ELSE LET id == CHOOSE x \in ids : TRUE
         IN removeAll(removeRecord(ix, id), ids \ {id})

\* removeByFile(file): removes every record whose provenance file matches.
removeByFile(ix, file) == removeAll(ix, ix.fileIndex[file])

(***************************************************************************)
(* Graph Adapter                                                           *)
(***************************************************************************)
Min(a, b) == IF a < b THEN a ELSE b

\* buildGraph(requirements): node -> (linkType -> [node]); one key per
\* record, in record order, none for ids that are only link targets.
buildGraph(requirements) ==
    [ keys  |-> [i \in DOMAIN requirements |-> requirements[i].id],
      edges |-> [id \in {requirements[i].id : i \in DOMAIN requirements} |->
                    (CHOOSE r \in SeqToSet(requirements) : r.id = id).links] ]

graphHas(graph, node) == node \in DOMAIN graph.edges

\* The link types a record's edge map has keys for.
edgeKeys(graph, node) == {lt \in LinkTypes : graph.edges[node][lt] # <<>>}

\* new Set<string>() filled from every target list: insertion order, first
\* occurrence kept.
keepAll(s, seen) == s

RECURSIVE Dedupe(_, _)
Dedupe(s, seen) ==
    IF s = <<>> THEN <<>>
    ELSE IF Head(s) \in seen THEN Dedupe(Tail(s), seen)
    ELSE <<Head(s)>> \o Dedupe(Tail(s), seen \cup {Head(s)})

neighborsOf(graph, node) ==
    IF graphHas(graph, node) THEN Dedupe(AllTargets(graph.edges[node]), {}) ELSE <<>>

(***************************************************************************)
(* Cycle Detector (Tarjan)                                                 *)
(***************************************************************************)
HIGH == "high"
MEDIUM == "medium"
LOW == "low"

DefaultCycleSeverity == [length2 |-> HIGH, length3_5 |-> MEDIUM, length6plus |-> LOW]

TarjanStart ==
    [ indices |-> <<>>, lowLinks |-> <<>>, onStack |-> {}, stack |-> <<>>,
      index |-> 0, sccs |-> <<>> ]

\* do { w = stack.pop(); onStack.delete(w); scc.push(w) } while (w !== node)
RECURSIVE popScc(_, _, _)
popScc(st, node, scc) ==
    LET w == st.stack[Len(st.stack)]
        st1 == [st EXCEPT !.stack = SubSeq(st.stack, 1, Len(st.stack) - 1),
                          !.onStack = st.onStack \ {w}]
        scc1 == Append(scc, w)
    IN IF w # node THEN popScc(st1, node, scc1)
       ELSE [st1 EXCEPT !.sccs = Append(st1.sccs, scc1)]

RECURSIVE strongConnect(_, _, _), strongConnectLoop(_, _, _, _)
RECURSIVE strongConnectLoopNoBackEdge(_, _, _, _)
strongConnectLoopNoBackEdge(graph, node, nbrs, st) ==
    IF nbrs = <<>> THEN st
    ELSE LET neighbor == Head(nbrs)
         IN IF neighbor \notin DOMAIN st.indices
            THEN LET s1 == strongConnect(graph, neighbor, st)
                 IN strongConnectLoopNoBackEdge(graph, node, Tail(nbrs),
                        [s1 EXCEPT !.lowLinks[node] =
                            Min(s1.lowLinks[node], s1.lowLinks[neighbor])])
            ELSE strongConnectLoopNoBackEdge(graph, node, Tail(nbrs), st)

strongConnect(graph, node, st) ==
    LET st1 == [ indices |-> (node :> st.index) @@ st.indices,
                 lowLinks |-> (node :> st.index) @@ st.lowLinks,
                 onStack |-> st.onStack \cup {node},
                 stack |-> Append(st.stack, node),
                 index |-> st.index + 1,
                 sccs |-> st.sccs ]
        st2 == strongConnectLoop(graph, node, neighborsOf(graph, node), st1)
    IN IF st2.lowLinks[node] = st2.indices[node] THEN popScc(st2, node, <<>>) ELSE st2

strongConnectLoop(graph, node, nbrs, st) ==
    IF nbrs = <<>> THEN st
    ELSE LET neighbor == Head(nbrs)
         IN IF neighbor \notin DOMAIN st.indices
            THEN LET s1 == strongConnect(graph, neighbor, st)
                 IN strongConnectLoop(graph, node, Tail(nbrs),
                        [s1 EXCEPT !.lowLinks[node] =
                            Min(s1.lowLinks[node], s1.lowLinks[neighbor])])
            ELSE IF neighbor \in st.onStack
            THEN strongConnectLoop(graph, node, Tail(nbrs),
                        [st EXCEPT !.lowLinks[node] =
                            Min(st.lowLinks[node], st.indices[neighbor])])
            ELSE strongConnectLoop(graph, node, Tail(nbrs), st)

RECURSIVE tarjanOver(_, _, _)
tarjanOver(graph, i, st) ==
    IF i > Len(graph.keys) THEN st
    ELSE IF graph.keys[i] \notin DOMAIN st.indices
    THEN tarjanOver(graph, i + 1, strongConnect(graph, graph.keys[i], st))
    ELSE tarjanOver(graph, i + 1, st)

findStronglyConnectedComponents(graph) == tarjanOver(graph, 1, TarjanStart).sccs

\* dfs(node, target) of findCyclePath; ps is [visited, path, found].
RECURSIVE cycleDfs(_, _, _, _, _), cycleDfsLoop(_, _, _, _, _)
cycleDfs(graph, sccSet, node, target, ps) ==
    LET ps1 == [visited |-> ps.visited \cup {node}, path |-> Append(ps.path, node),
                found |-> FALSE]
        ps2 == cycleDfsLoop(graph, sccSet, neighborsOf(graph, node), target, ps1)
    IN IF ps2.found THEN ps2
       ELSE [ps2 EXCEPT !.path = SubSeq(ps2.path, 1, Len(ps2.path) - 1)]

cycleDfsLoop(graph, sccSet, nbrs, target, ps) ==
    IF nbrs = <<>> THEN ps
    ELSE LET neighbor == Head(nbrs)
         IN IF neighbor \notin sccSet
            THEN cycleDfsLoop(graph, sccSet, Tail(nbrs), target, ps)
            ELSE IF neighbor = target /\ Len(ps.path) > 1
            THEN [ps EXCEPT !.path = Append(ps.path, neighbor), !.found = TRUE]
            ELSE IF neighbor \notin ps.visited
            THEN LET ps1 == cycleDfs(graph, sccSet, neighbor, target, ps)
                 IN IF ps1.found THEN ps1
                    ELSE cycleDfsLoop(graph, sccSet, Tail(nbrs), target, ps1)
            ELSE cycleDfsLoop(graph, sccSet, Tail(nbrs), target, ps)

findCyclePathAsPopped(scc, graph) == scc

findCyclePath(scc, graph) ==
    LET ps == cycleDfs(graph, SeqToSet(scc), scc[1], scc[1],
                       [visited |-> {}, path |-> <<>>, found |-> FALSE])
    IN IF Len(ps.path) > 0 THEN ps.path ELSE scc

getCycleLinkTypes(cycle, graph) ==
    { lt \in LinkTypes :
        \E i \in 1..(Len(cycle) - 1) :
            /\ graphHas(graph, cycle[i])
            /\ cycle[i + 1] \in SeqToSet(graph.edges[cycle[i]][lt]) }

determineCycleSeverity(length, config) ==
    IF length <= 2 THEN config.length2
    ELSE IF length <= 5 THEN config.length3_5
    ELSE config.length6plus

\* The body of the loop over the SCCs: the cycles one SCC contributes.
sccCyclesNoSelfLoop(scc, graph, config) ==
    IF Len(scc) > 1
    THEN LET cycle == findCyclePath(scc, graph)
         IN << [ cycle |-> cycle, length |-> Len(cycle) - 1,
                 severity |-> determineCycleSeverity(Len(cycle), config),
                 linkTypes |-> getCycleLinkTypes(cycle, graph) ] >>
    ELSE <<>>

sccCycles(scc, graph, config) ==
    IF Len(scc) > 1
    THEN LET cycle == findCyclePath(scc, graph)
         IN << [ cycle |-> cycle, length |-> Len(cycle) - 1,
                 severity |-> determineCycleSeverity(Len(cycle), config),
                 linkTypes |-> getCycleLinkTypes(cycle, graph) ] >>
    ELSE IF Len(scc) = 1 /\ graphHas(graph, scc[1])
            /\ \E lt \in LinkTypes : scc[1] \in SeqToSet(graph.edges[scc[1]][lt])
    THEN << [ cycle |-> <<scc[1], scc[1]>>, length |-> 1, severity |-> HIGH,
              linkTypes |-> edgeKeys(graph, scc[1]) ] >>
    ELSE <<>>

RECURSIVE cyclesOfSccs(_, _, _, _)
cyclesOfSccs(sccs, i, graph, config) ==
    IF i > Len(sccs) THEN <<>>
    ELSE sccCycles(sccs[i], graph, config) \o cyclesOfSccs(sccs, i + 1, graph, config)

detectCircularDependencies(requirements, config) ==
    LET graph == buildGraph(requirements)
    IN cyclesOfSccs(findStronglyConnectedComponents(graph), 1, graph, config)

\* findMinimalCycle(fromId, toId, graph): breadth-first search from toId
\* back to fromId; queue entries are [node, path].
RECURSIVE minCycleScan(_, _, _, _, _), minCycleBfs(_, _, _, _)
minCycleScan(graph, fromId, nbrs, entry, qv) ==
    IF nbrs = <<>> THEN qv
    ELSE LET neighbor == Head(nbrs)
         IN IF neighbor = fromId
            THEN [qv EXCEPT !.result = <<fromId>> \o entry.path]
            ELSE IF neighbor \notin qv.visited
            THEN minCycleScan(graph, fromId, Tail(nbrs), entry,
                    [qv EXCEPT !.visited = qv.visited \cup {neighbor},
                               !.queue = Append(qv.queue,
                                    [node |-> neighbor, path |-> Append(entry.path, neighbor)])])
            ELSE minCycleScan(graph, fromId, Tail(nbrs), entry, qv)

minCycleBfs(graph, fromId, queue, visited) ==
    IF queue = <<>> THEN NULL
    ELSE LET entry == Head(queue)
             qv == minCycleScan(graph, fromId, neighborsOf(graph, entry.node), entry,
                        [queue |-> Tail(queue), visited |-> visited, result |-> NULL])
         IN IF qv.result # NULL THEN qv.result
            ELSE minCycleBfs(graph, fromId, qv.queue, qv.visited)

RECURSIVE minCycleDfsLoop(_, _, _, _, _)
minCycleDfsLoop(graph, fromId, nbrs, path, r) ==
    IF nbrs = <<>> THEN r
    ELSE LET neighbor == Head(nbrs)
         IN IF neighbor = fromId THEN [r EXCEPT !.result = <<fromId>> \o path]
            ELSE IF neighbor \notin r.visited
            THEN LET r1 == minCycleDfsLoop(graph, fromId, neighborsOf(graph, neighbor),
                                Append(path, neighbor),
                                [r EXCEPT !.visited = r.visited \cup {neighbor}])
                 IN IF r1.result # NULL THEN r1
                    ELSE minCycleDfsLoop(graph, fromId, Tail(nbrs), path, r1)
            ELSE minCycleDfsLoop(graph, fromId, Tail(nbrs), path, r)

findMinimalCycleDepthFirst(fromId, toId, graph) ==
    minCycleDfsLoop(graph, fromId, neighborsOf(graph, toId), <<toId>>,
                    [visited |-> {toId}, result |-> NULL]).result

findMinimalCycle(fromId, toId, graph) ==
    minCycleBfs(graph, fromId, <<[node |-> toId, path |-> <<toId>>]>>, {toId})

(***************************************************************************)
(* Cycle detection by depth-first search (utils/graphAnalysis)             *)
(***************************************************************************)
\* The adjacency list: every target of every link type, duplicates kept.
adjacency(requirements) ==
    [id \in {requirements[i].id : i \in DOMAIN requirements} |->
        AllTargets((CHOOSE r \in SeqToSet(requirements) : r.id = id).links)]

IndexOf(s, x) == CHOOSE i \in DOMAIN s : s[i] = x /\ \A j \in 1..(i - 1) : s[j] # x

\* dfs(nodeId); ds is [visited, recursionStack, path, cycles].
RECURSIVE dfsVisit(_, _, _), dfsVisitLoop(_, _, _)
dfsVisit(graph, nodeId, ds) ==
    LET ds1 == [ds EXCEPT !.visited = ds.visited \cup {nodeId},
                          !.recursionStack = ds.recursionStack \cup {nodeId},
                          !.path = Append(ds.path, nodeId)]
        ds2 == dfsVisitLoop(graph, IF nodeId \in DOMAIN graph THEN graph[nodeId] ELSE <<>>, ds1)
    IN [ds2 EXCEPT !.path = SubSeq(ds2.path, 1, Len(ds2.path) - 1),
                   !.recursionStack = ds2.recursionStack \ {nodeId}]

dfsVisitLoop(graph, nbrs, ds) ==
    IF nbrs = <<>> THEN ds
    ELSE LET neighbor == Head(nbrs)
         IN IF neighbor \notin ds.visited
            THEN dfsVisitLoop(graph, Tail(nbrs),
                    IF neighbor \in DOMAIN graph THEN dfsVisit(graph, neighbor, ds) ELSE ds)
            ELSE IF neighbor \in ds.recursionStack /\ neighbor \in SeqToSet(ds.path)
            THEN dfsVisitLoop(graph, Tail(nbrs),
                    [ds EXCEPT !.cycles = Append(ds.cycles,
                        Append(SubSeq(ds.path, IndexOf(ds.path, neighbor), Len(ds.path)),
                               neighbor))])
            ELSE dfsVisitLoop(graph, Tail(nbrs), ds)

RECURSIVE dfsOver(_, _, _, _)
dfsOver(requirements, graph, i, ds) ==
    IF i > Len(requirements) THEN ds
    ELSE IF requirements[i].id \notin ds.visited
    THEN dfsOver(requirements, graph, i + 1, dfsVisit(graph, requirements[i].id, ds))
    ELSE dfsOver(requirements, graph, i + 1, ds)

\* Index of the first smallest element.
RECURSIVE minIndexFrom(_, _, _)
minIndexFrom(s, i, minIndex) ==
    IF i > Len(s) THEN minIndex
    ELSE minIndexFrom(s, i + 1, IF s[i] < s[minIndex] THEN i ELSE minIndex)

normalizeCycleNoRotation(cycle) ==
    IF Len(cycle) <= 1 THEN cycle
    ELSE IF cycle[1] = cycle[Len(cycle)] THEN SubSeq(cycle, 1, Len(cycle) - 1) ELSE cycle

normalizeCycle(cycle) ==
    IF Len(cycle) <= 1 THEN cycle
    ELSE LET cleanCycle == IF cycle[1] = cycle[Len(cycle)]
                           THEN SubSeq(cycle, 1, Len(cycle) - 1) ELSE cycle
             minIndex == minIndexFrom(cleanCycle, 2, 1)
         IN SubSeq(cleanCycle, minIndex, Len(cleanCycle))
                \o SubSeq(cleanCycle, 1, minIndex - 1)

\* The key normalized.join('->') is the id sequence itself: ids hold no
\* "->", so two keys are equal exactly when the sequences are.
RECURSIVE uniqueCycles(_, _, _)
uniqueCycles(found, i, seenCycles) ==
    IF i > Len(found) THEN <<>>
    ELSE LET normalized == normalizeCycle(found[i])
         IN IF normalized \notin seenCycles
            THEN <<normalized>> \o uniqueCycles(found, i + 1, seenCycles \cup {normalized})
            ELSE uniqueCycles(found, i + 1, seenCycles)

dfsDetectCircularDependencies(requirements) ==
    LET ds == dfsOver(requirements, adjacency(requirements), 1,
                      [visited |-> {}, recursionStack |-> {}, path |-> <<>>, cycles |-> <<>>])
    IN uniqueCycles(ds.cycles, 1, {})

(***************************************************************************)
(* The index under upsert and removeByFile                                 *)
(***************************************************************************)
CycleIdle ==
    /\ reqs = <<>>
    /\ pc = "idle"
    /\ cycles = <<>>
    /\ dfsCycles = <<>>
    /\ minArgs = <<0, 0>>
    /\ minCycle = NULL
    /\ cfg = NULL
    /\ out = NULL
    /\ workspace = NULL
    /\ manager = NULL

Init ==
    /\ index = EmptyIndex
    /\ lastOp = [kind |-> "init"]
    /\ lastFault = NULL
    /\ CycleIdle

Upsert(rec) ==
    /\ index' = upsert(index, rec)
    /\ lastFault' = duplicateFault(index, rec)
    /\ lastOp' = [kind |-> "upsert", rec |-> rec,
                  collided |-> (index.objects[rec.id] # NULL
                                /\ index.objects[rec.id].file # rec.file)]
    /\ UNCHANGED cycVars
    /\ UNCHANGED anaVars
    /\ UNCHANGED cacheVars

RemoveByFile(file) ==
    /\ index' = removeByFile(index, file)
    /\ lastFault' = NULL
    /\ lastOp' = [kind |-> "removeByFile", file |-> file,
                  removed |-> index.fileIndex[file]]
    /\ UNCHANGED cycVars
    /\ UNCHANGED anaVars
    /\ UNCHANGED cacheVars

Next ==
    \/ \E rec \in RecordPool : Upsert(rec)
    \/ \E file \in Files : RemoveByFile(file)

Spec == Init /\ [][Next]_vars

(***************************************************************************)
(* Analysis runs over a record list                                        *)
(*                                                                         *)
(* The record list is written record by record and link by link (record   *)
(* ids ascending or descending, the targets of one link type ascending,   *)
(* links to ids without a record), then handed to an analyzer.            *)
(***************************************************************************)
RecordIds(requirements) == {requirements[i].id : i \in DOMAIN requirements}

RECURSIVE CountLinks(_, _)
CountLinks(requirements, i) ==
    IF i > Len(requirements) THEN 0
    ELSE Len(AllTargets(requirements[i].links)) + CountLinks(requirements, i + 1)

InitCycle ==
    /\ index = EmptyIndex
    /\ lastOp = [kind |-> "init"]
    /\ lastFault = NULL
    /\ CycleIdle

\* The records of a document set arrive in ascending or in descending id
\* order.
Monotone(requirements) ==
    \/ \A i \in DOMAIN requirements : \A j \in DOMAIN requirements :
            i < j => requirements[i].id < requirements[j].id
    \/ \A i \in DOMAIN requirements : \A j \in DOMAIN requirements :
            i < j => requirements[i].id > requirements[j].id

AddRecord(id) ==
    /\ pc = "idle"
    /\ id \notin RecordIds(reqs)
    /\ Monotone(Append(reqs, [id |-> id, links |-> NoLinks]))
    /\ reqs' = Append(reqs, [id |-> id, links |-> NoLinks])
    /\ UNCHANGED <<pc, cycles, dfsCycles, minArgs, minCycle>>
    /\ UNCHANGED idxVars
    /\ UNCHANGED anaVars
    /\ UNCHANGED cacheVars

AddLink(i, lt, to) ==
    /\ pc = "idle"
    /\ i \in DOMAIN reqs
    /\ CountLinks(reqs, 1) < MaxEdges
    /\ \A k \in DOMAIN reqs[i].links[lt] : reqs[i].links[lt][k] < to
    /\ reqs' = [reqs EXCEPT ![i].links[lt] = Append(@, to)]
    /\ UNCHANGED <<pc, cycles, dfsCycles, minArgs, minCycle>>
    /\ UNCHANGED idxVars
    /\ UNCHANGED anaVars
    /\ UNCHANGED cacheVars

Detect ==
    /\ pc = "idle"
    /\ cycles' = detectCircularDependencies(reqs, DefaultCycleSeverity)
    /\ dfsCycles' = dfsDetectCircularDependencies(reqs)
    /\ pc' = "detected"
    /\ UNCHANGED <<reqs, minArgs, minCycle>>
    /\ UNCHANGED idxVars
    /\ UNCHANGED anaVars
    /\ UNCHANGED cacheVars

FindMinimal(fromId, toId) ==
    /\ pc = "idle"
    /\ minArgs' = <<fromId, toId>>
    /\ minCycle' = findMinimalCycle(fromId, toId, buildGraph(reqs))
    /\ pc' = "minimal"
    /\ UNCHANGED <<reqs, cycles, dfsCycles>>
    /\ UNCHANGED idxVars
    /\ UNCHANGED anaVars
    /\ UNCHANGED cacheVars

Build ==
    \/ \E id \in Ids : AddRecord(id)
    \/ \E i \in 1..NumIds, lt \in LinkTypes, to \in Ids : AddLink(i, lt, to)

NextCycle ==
    \/ Build
    \/ Detect

NextMinimal ==
    \/ Build
    \/ \E fromId \in Ids, toId \in Ids : FindMinimal(fromId, toId)

SpecCycle == InitCycle /\ [][NextCycle]_vars

SpecMinimal == InitCycle /\ [][NextMinimal]_vars

(***************************************************************************)
(* Full records for the analyzers                                          *)
(*                                                                         *)
(* A record list holds the records 1..n (n <= NumRecords) in id order;     *)
(* link targets range over 0..NumRecords, so a target may be the id of no  *)
(* record.  Each analyzer is applied to every list whose records are drawn *)
(* from the shapes (a record without its id) that its code distinguishes. *)
(***************************************************************************)
NumRecords == 2

Targets == 0..NumRecords

LinksTo(lt, targets) == [t \in LinkTypes |-> IF t = lt THEN targets ELSE <<>>]

ListsOf(shapes) == UNION {[1..n -> shapes] : n \in 0..NumRecords}

WithIds(shapeList) == [i \in DOMAIN shapeList |-> [id |-> i] @@ shapeList[i]]

\* Every variable but the record list at rest.
IdleWith(requirements) ==
    /\ index = EmptyIndex
    /\ lastOp = [kind |-> "init"]
    /\ lastFault = NULL
    /\ reqs = requirements
    /\ pc = "idle"
    /\ cycles = <<>>
    /\ dfsCycles = <<>>
    /\ minArgs = <<0, 0>>
    /\ minCycle = NULL
    /\ cfg = NULL
    /\ out = NULL
    /\ workspace = NULL
    /\ manager = NULL

\* An analyzer call: the record list is left alone, the call and its result
\* are recorded.
Ran(kind, config, result) ==
    /\ pc = "idle"
    /\ pc' = kind
    /\ cfg' = config
    /\ out' = result
    /\ UNCHANGED <<reqs, cycles, dfsCycles, minArgs, minCycle>>
    /\ UNCHANGED idxVars
    /\ UNCHANGED cacheVars

\* requirements.find(r => r.id === id); NULL when there is none.
getRequirementById(requirements, id) ==
    IF \E i \in DOMAIN requirements : requirements[i].id = id
    THEN requirements[CHOOSE i \in DOMAIN requirements :
            requirements[i].id = id /\ \A j \in 1..(i - 1) : requirements[j].id # id]
    ELSE NULL

\* Every target of every link type of one record.
getAllOutgoingLinks(req) == AllTargets(req.links)

PercentUnscaled(part, total) == 200 * part + total

\* Math.round(part / total * 100) for 0 <= part <= total, total > 0.
RoundPercent(part, total) == (200 * part + total) \div (2 * total)

RECURSIVE SumFrom(_, _)
SumFrom(s, i) == IF i > Len(s) THEN 0 ELSE s[i] + SumFrom(s, i + 1)

(***************************************************************************)
(* Coverage Analyzer                                                       *)
(***************************************************************************)
CoverageTypes == {"requirement", "design_element", "parameter"}
Priorities == <<"critical", "high", "medium", "low">>

coverageByAnyTarget(requirements, linkType, fromTypes, toTypes, threshold) ==
    LET IsSource(req) == req.type \in fromTypes
        sourceRequirements == SelectSeq(requirements, IsSource)
        HasLink(req) == linkType \in DOMAIN req.links /\ Len(req.links[linkType]) > 0
        Lacks(req) == ~HasLink(req)
        lacking == SelectSeq(sourceRequirements, Lacks)
        total == Len(sourceRequirements)
        covered == Len(SelectSeq(sourceRequirements, HasLink))
        percentage == IF total > 0 THEN RoundPercent(covered, total) ELSE 0
    IN [ linkType |-> linkType, fromTypes |-> fromTypes, toTypes |-> toTypes,
         total |-> total, withLinks |-> covered, percentage |-> percentage,
         threshold |-> threshold, meets_threshold |-> (percentage >= threshold),
         missing |-> [i \in DOMAIN lacking |-> lacking[i].id] ]

calculateCoverageForLinkType(requirements, linkType, fromTypes, toTypes, threshold) ==
    LET IsSource(req) == req.type \in fromTypes
        sourceRequirements == SelectSeq(requirements, IsSource)
        ValidTarget(targetId) ==
            LET target == getRequirementById(requirements, targetId)
            IN target # NULL /\ target.type \in toTypes
        HasValid(req) ==
            /\ linkType \in DOMAIN req.links
            /\ Len(req.links[linkType]) > 0
            /\ Len(SelectSeq(req.links[linkType], ValidTarget)) > 0
        Lacks(req) == ~HasValid(req)
        withLinks == SelectSeq(sourceRequirements, HasValid)
        lacking == SelectSeq(sourceRequirements, Lacks)
        total == Len(sourceRequirements)
        covered == Len(withLinks)
        percentage == IF total > 0 THEN RoundPercent(covered, total) ELSE 0
    IN [ linkType |-> linkType, fromTypes |-> fromTypes, toTypes |-> toTypes,
         total |-> total, withLinks |-> covered, percentage |-> percentage,
         threshold |-> threshold, meets_threshold |-> (percentage >= threshold),
         missing |-> [i \in DOMAIN lacking |-> lacking[i].id] ]

\* config.hierarchicalCoverage is the sequence of its rules, in key order.
calculateHierarchicalCoverage(requirements, config) ==
    [k \in DOMAIN config.hierarchicalCoverage |->
        LET rule == config.hierarchicalCoverage[k]
        IN calculateCoverageForLinkType(requirements, rule.linkType, rule.fromTypes,
                                        rule.toTypes, rule.threshold)]

getOverallCoverageScore(hierarchicalCoverage) ==
    LET totalWeight ==
            SumFrom([k \in DOMAIN hierarchicalCoverage |-> hierarchicalCoverage[k].total], 1)
        weightedSum ==
            SumFrom([k \in DOMAIN hierarchicalCoverage |->
                        hierarchicalCoverage[k].percentage * hierarchicalCoverage[k].total], 1)
    IN IF Len(hierarchicalCoverage) = 0 THEN 0
       ELSE IF totalWeight > 0 THEN (2 * weightedSum + totalWeight) \div (2 * totalWeight)
       ELSE 0

\* (req.metadata.priority || 'medium')
priorityOf(req) == IF req.priority = None THEN "medium" ELSE req.priority

calculatePriorityWeightedCoverage(requirements, config) ==
    [k \in DOMAIN Priorities |->
        LET priority == Priorities[k]
            InBucket(req) == priorityOf(req) = priority
            priorityReqs == SelectSeq(requirements, InBucket)
            HasOutgoing(req) == Len(getAllOutgoingLinks(req)) > 0
            HasNone(req) == Len(getAllOutgoingLinks(req)) = 0
            covered == SelectSeq(priorityReqs, HasOutgoing)
            bare == SelectSeq(priorityReqs, HasNone)
            configured == config.priorityWeightedCoverage[priority]
            threshold == IF configured = 0 THEN 80 ELSE configured
            total == Len(priorityReqs)
            coveredCount == Len(covered)
            percentage == IF total > 0 THEN RoundPercent(coveredCount, total) ELSE 0
        IN [ priority |-> priority, total |-> total, covered |-> coveredCount,
             percentage |-> percentage, threshold |-> threshold,
             meets_threshold |-> (percentage >= threshold),
             missing |-> [i \in DOMAIN bare |-> bare[i].id] ]]

\* calculateCoverage of utils/graphAnalysis.
calculateCoverage(requirements) ==
    LET Linked(req) == \E lt \in LinkTypes : Len(req.links[lt]) > 0
        total == Len(requirements)
        withLinks == Len(SelectSeq(requirements, Linked))
    IN [ total |-> total, withLinks |-> withLinks,
         percentage |-> IF total > 0 THEN RoundPercent(withLinks, total) ELSE 0 ]

\* The link maps of the records given to the coverage analyzer: no link,
\* one link, a link to no record followed by one to a record.
CoverageLinks ==
    {NoLinks}
    \cup {LinksTo(lt, <<t>>) : lt \in LinkTypes, t \in Targets}
    \cup {LinksTo("satisfies", <<0, t>>) : t \in Targets \ {0}}

\* The priorities a record of each type is given (None: no priority key).
CoveragePriorities(ty) ==
    IF ty = "requirement" THEN {None, "critical"}
    ELSE IF ty = "design_element" THEN {"high"} ELSE {None}

CoverageShapes ==
    UNION { { [type |-> ty, status |-> "draft", baseline |-> None, priority |-> pr,
               links |-> l] : pr \in CoveragePriorities(ty), l \in CoverageLinks } :
            ty \in CoverageTypes }

\* The rules the analyzer is configured with; "implements" is a link type
\* none of the records has a key for.
CoverageRules ==
    { [linkType |-> "satisfies", fromTypes |-> {"requirement", "design_element"},
       toTypes |-> {"design_element", "parameter"}, threshold |-> 80],
      [linkType |-> "links", fromTypes |-> {"requirement"},
       toTypes |-> {"requirement"}, threshold |-> 50],
      [linkType |-> "satisfies", fromTypes |-> {"parameter"},
       toTypes |-> CoverageTypes, threshold |-> 0],
      [linkType |-> "implements", fromTypes |-> {"design_element"},
       toTypes |-> CoverageTypes, threshold |-> 100] }

PriorityThresholds ==
    { [critical |-> 100, high |-> 90, medium |-> 80, low |-> 70],
      [critical |-> 50, high |-> 50, medium |-> 50, low |-> 0] }

RuleLists ==
    {<<>>} \cup {<<r>> : r \in CoverageRules}
    \cup { <<r1, r2>> : r1 \in {r \in CoverageRules : r.threshold = 80},
                        r2 \in {r \in CoverageRules : r.threshold # 80} }

CoverageConfigs ==
    { [hierarchicalCoverage |-> rules, priorityWeightedCoverage |-> th] :
        rules \in RuleLists, th \in PriorityThresholds }

InitCoverage == \E l \in ListsOf(CoverageShapes) : IdleWith(WithIds(l))

Coverage(config) ==
    LET hier == calculateHierarchicalCoverage(reqs, config)
    IN Ran("coverage", config,
           [ hierarchical |-> hier,
             overall |-> getOverallCoverageScore(hier),
             priority |-> calculatePriorityWeightedCoverage(reqs, config),
             simple |-> calculateCoverage(reqs) ])

NextCoverage == \E config \in CoverageConfigs : Coverage(config)

SpecCoverage == InitCoverage /\ [][NextCoverage]_vars

(***************************************************************************)
(* Orphan Classifier                                                       *)
(***************************************************************************)
BLOCKER == "blocker"
INFO == "info"

\* The ids of the records that link to id under any link type.
getAllIncomingLinks(requirements, id) ==
    LET LinksToId(req) == id \in SeqToSet(getAllOutgoingLinks(req))
        linking == SelectSeq(requirements, LinksToId)
    IN [i \in DOMAIN linking |-> linking[i].id]

determineOrphanSeverity(req, category, config) ==
    LET priority == priorityOf(req)
    IN IF category = "true_orphan"
       THEN IF priority \in DOMAIN config.orphanSeverity
            THEN config.orphanSeverity[priority]
            ELSE MEDIUM
       ELSE IF priority = "critical" THEN HIGH
            ELSE IF priority = "high" THEN MEDIUM
            ELSE IF priority = "medium" THEN LOW
            ELSE IF priority = "low" THEN INFO
            ELSE LOW

orphanCategoryByOutgoing(outgoing, incoming) ==
    IF Len(outgoing) = 0 THEN "true_orphan" ELSE None

\* The category chain of detectOrphanedRequirements; None is no category.
orphanCategory(outgoing, incoming) ==
    IF Len(outgoing) = 0 /\ Len(incoming) = 0 THEN "true_orphan"
    ELSE IF Len(outgoing) = 0 /\ Len(incoming) > 0 THEN "dead_end"
    ELSE IF Len(outgoing) > 0 /\ Len(incoming) = 0 THEN "source_only"
    ELSE None

RECURSIVE orphansFrom(_, _, _)
orphansFrom(requirements, i, config) ==
    IF i > Len(requirements) THEN <<>>
    ELSE LET req == requirements[i]
             outgoing == getAllOutgoingLinks(req)
             incoming == getAllIncomingLinks(requirements, req.id)
             category == orphanCategory(outgoing, incoming)
         IN (IF category # None
             THEN << [ id |-> req.id, type |-> req.type, priority |-> priorityOf(req),
                       category |-> category,
                       severity |-> determineOrphanSeverity(req, category, config),
                       incomingCount |-> Len(incoming),
                       outgoingCount |-> Len(outgoing) ] >>
             ELSE <<>>) \o orphansFrom(requirements, i + 1, config)

detectOrphanedRequirements(requirements, config) == orphansFrom(requirements, 1, config)

\* Priorities of the records given to the classifier: none, the four the
\* table has, one it has not.
OrphanPriorities == {None, "critical", "high", "medium", "low", "urgent"}

OrphanLinks == {NoLinks} \cup {LinksTo(lt, <<t>>) : lt \in LinkTypes, t \in Targets}

OrphanShapes ==
    { [type |-> "requirement", status |-> "draft", baseline |-> None,
       priority |-> pr, links |-> l] : pr \in OrphanPriorities, l \in OrphanLinks }

\* The default priority-to-severity table and two other configured tables.
OrphanTables ==
    { [critical |-> BLOCKER, high |-> HIGH, medium |-> MEDIUM, low |-> LOW],
      [critical |-> MEDIUM, high |-> MEDIUM, medium |-> LOW, low |-> INFO],
      [critical |-> HIGH, high |-> HIGH, medium |-> HIGH, low |-> HIGH] }

InitOrphan == \E l \in ListsOf(OrphanShapes) : IdleWith(WithIds(l))

Orphans(table) ==
    Ran("orphans", [orphanSeverity |-> table],
        detectOrphanedRequirements(reqs, [orphanSeverity |-> table]))

NextOrphan == \E table \in OrphanTables : Orphans(table)

SpecOrphan == InitOrphan /\ [][NextOrphan]_vars

(***************************************************************************)
(* Status Consistency Checker                                              *)
(***************************************************************************)
\* (req.status || 'draft')
statusAsGiven(req) == req.status

\* req.status || 'draft'
statusOf(req) == IF req.status = None THEN "draft" ELSE req.status

detectStatusViolationUnconfigured(fromStatus, toStatus, config) ==
    IF fromStatus = "approved" /\ toStatus = "draft" THEN "approved_to_draft"
    ELSE IF fromStatus = "implemented" /\ toStatus = "draft" THEN "implemented_to_draft"
    ELSE IF fromStatus = "baselined" /\ toStatus \in {"draft", "review"}
    THEN "baselined_to_draft"
    ELSE None

detectStatusViolation(fromStatus, toStatus, config) ==
    IF config.statusConsistency.enforceApprovedChain
       /\ fromStatus = "approved" /\ toStatus = "draft"
    THEN "approved_to_draft"
    ELSE IF config.statusConsistency.enforceImplementedChain
            /\ fromStatus = "implemented" /\ toStatus = "draft"
    THEN "implemented_to_draft"
    ELSE IF fromStatus = "baselined" /\ toStatus \in {"draft", "review"}
    THEN "baselined_to_draft"
    ELSE None

determineStatusInconsistencySeverity(fromStatus, toStatus, violation, priority) ==
    IF violation = "baselined_to_draft" THEN HIGH
    ELSE IF priority \in {"critical", "high"} THEN HIGH
    ELSE MEDIUM

buildChain(requirements, fromId, toId) == <<fromId, toId>>

\* The inconsistencies of the links req.links[linkType][k..].
RECURSIVE statusOfTargets(_, _, _, _, _)
statusOfTargets(requirements, req, linkType, k, config) ==
    IF k > Len(req.links[linkType]) THEN <<>>
    ELSE LET targetId == req.links[linkType][k]
             target == getRequirementById(requirements, targetId)
             rest == statusOfTargets(requirements, req, linkType, k + 1, config)
         IN IF target = NULL THEN rest
            ELSE LET fromStatus == statusOf(req)
                     toStatus == statusOf(target)
                     violation == detectStatusViolation(fromStatus, toStatus, config)
                 IN IF violation = None THEN rest
                    ELSE << [ chain |-> buildChain(requirements, req.id, targetId),
                              fromId |-> req.id, toId |-> targetId,
                              fromStatus |-> fromStatus, toStatus |-> toStatus,
                              linkType |-> linkType,
                              severity |-> determineStatusInconsistencySeverity(
                                  fromStatus, toStatus, violation, priorityOf(req)),
                              violation |-> violation ] >> \o rest

RECURSIVE statusOfLinkTypes(_, _, _, _), statusOfRecords(_, _, _)
statusOfLinkTypes(requirements, req, t, config) ==
    IF t > Len(LinkTypeOrder) THEN <<>>
    ELSE statusOfTargets(requirements, req, LinkTypeOrder[t], 1, config)
            \o statusOfLinkTypes(requirements, req, t + 1, config)

statusOfRecords(requirements, i, config) ==
    IF i > Len(requirements) THEN <<>>
    ELSE statusOfLinkTypes(requirements, requirements[i], 1, config)
            \o statusOfRecords(requirements, i + 1, config)

detectStatusInconsistencies(requirements, config) == statusOfRecords(requirements, 1, config)

\* statusRank.get(status): the 0-based position of the status in the
\* vocabulary (the last one if it is repeated); -1 for undefined.
statusRankUnknownLast(statusOrder, status) ==
    IF \E k \in DOMAIN statusOrder : statusOrder[k] = status
    THEN (CHOOSE k \in DOMAIN statusOrder : statusOrder[k] = status) - 1
    ELSE Len(statusOrder)

statusRank(statusOrder, status) ==
    IF \E k \in DOMAIN statusOrder : statusOrder[k] = status
    THEN (CHOOSE k \in DOMAIN statusOrder :
            statusOrder[k] = status /\ \A j \in (k + 1)..Len(statusOrder) : statusOrder[j] # status) - 1
    ELSE -1

\* statusOrder.indexOf(status): the first 0-based position, -1 if none.
indexOfStatus(statusOrder, status) ==
    IF \E k \in DOMAIN statusOrder : statusOrder[k] = status
    THEN (CHOOSE k \in DOMAIN statusOrder :
            statusOrder[k] = status /\ \A j \in 1..(k - 1) : statusOrder[j] # status) - 1
    ELSE -1

\* The issues of the links whose targets are targets[k..].
RECURSIVE consistencyOfTargets(_, _, _, _, _), consistencyOfRecords(_, _, _)
consistencyOfTargets(requirements, req, targets, k, statusOrder) ==
    IF k > Len(targets) THEN <<>>
    ELSE LET linkedReq == getRequirementById(requirements, targets[k])
             rest == consistencyOfTargets(requirements, req, targets, k + 1, statusOrder)
             reqRank == statusRank(statusOrder, req.status)
         IN IF linkedReq = NULL \/ linkedReq.status = None THEN rest
            ELSE LET linkedRank == statusRank(statusOrder, linkedReq.status)
                 IN IF linkedRank = -1 THEN rest
                    ELSE IF reqRank > linkedRank
                            /\ reqRank >= indexOfStatus(statusOrder, "approved")
                    THEN << [ fromId |-> req.id, fromStatus |-> req.status,
                              relatedIds |-> <<targets[k]>>,
                              toStatus |-> linkedReq.status,
                              severity |-> "warning" ] >> \o rest
                    ELSE rest

consistencyOfRecords(requirements, i, statusOrder) ==
    IF i > Len(requirements) THEN <<>>
    ELSE LET req == requirements[i]
             rest == consistencyOfRecords(requirements, i + 1, statusOrder)
         IN IF req.status = None THEN rest
            ELSE IF statusRank(statusOrder, req.status) = -1 THEN rest
            ELSE consistencyOfTargets(requirements, req, AllTargets(req.links), 1, statusOrder)
                    \o rest

\* checkStatusConsistency of utils/graphAnalysis.
checkStatusConsistency(requirements, statusOrder) ==
    consistencyOfRecords(requirements, 1, statusOrder)

\* Statuses of the records given to the checkers: none, three the checkers
\* know, one that no vocabulary has.
StatusChoices == {None, "draft", "approved", "implemented", "obsolete"}

StatusLinks ==
    {NoLinks} \cup {LinksTo(lt, <<t>>) : lt \in LinkTypes, t \in Targets}
    \cup {LinksTo("links", <<t, t>>) : t \in {1}}

StatusShapes ==
    { [type |-> "requirement", status |-> st, baseline |-> None, priority |-> None,
       links |-> l] : st \in StatusChoices, l \in StatusLinks }

\* Ordered status vocabularies: the usual one, one without "draft", none.
StatusOrders ==
    { <<"draft", "review", "approved", "implemented">>,
      <<"review", "approved", "implemented">>,
      <<>> }

StatusConfigs ==
    { [statusConsistency |-> [enforceApprovedChain |-> a, enforceImplementedChain |-> m],
       statusOrder |-> order] :
        a \in BOOLEAN, m \in BOOLEAN, order \in StatusOrders }

InitStatus == \E l \in ListsOf(StatusShapes) : IdleWith(WithIds(l))

Status(config) ==
    Ran("status", config,
        [ inconsistencies |-> detectStatusInconsistencies(reqs, config),
          issues |-> checkStatusConsistency(reqs, config.statusOrder) ])

\* enforceImplementedChain varies under the usual vocabulary.
NextStatus ==
    \E config \in StatusConfigs :
        /\ (Len(config.statusOrder) < 4 => config.statusConsistency.enforceImplementedChain)
        /\ Status(config)

SpecStatus == InitStatus /\ [][NextStatus]_vars

(***************************************************************************)
(* Completeness Tracer                                                     *)
(***************************************************************************)
\* Record ids are a type prefix followed by a number ("SYS2"): the id of
\* prefix number c and number n is c * IdBase + n.
TypePrefixes == <<"STK", "SYS", "DSG">>

IdBase == NumRecords + 1

TypedId(code, n) == code * IdBase + n

\* The alphabetic head of an id, "" when there is none.
getTypePrefix(id) ==
    IF (id \div IdBase) \in DOMAIN TypePrefixes THEN TypePrefixes[id \div IdBase] ELSE ""

severityByPriorityOnly(priority, missingLinkCount) ==
    IF priority = "critical" THEN BLOCKER
    ELSE IF priority = "high" THEN HIGH
    ELSE MEDIUM

determineCompletenessSeverity(priority, missingLinkCount) ==
    IF priority = "critical" THEN BLOCKER
    ELSE IF priority = "high" THEN (IF missingLinkCount > 1 THEN HIGH ELSE MEDIUM)
    ELSE MEDIUM

outgoingOf(requirements, reqId) ==
    LET req == getRequirementById(requirements, reqId)
    IN IF req = NULL THEN {} ELSE SeqToSet(getAllOutgoingLinks(req))

foundTargetsUnchecked(requirements, currentReqs, targetType) ==
    {targetId \in UNION {outgoingOf(requirements, reqId) : reqId \in currentReqs} :
        getTypePrefix(targetId) = targetType}

\* The targets of the records of the current level that exist and are of
\* the next expected type.
foundTargets(requirements, currentReqs, targetType) ==
    {targetId \in UNION {outgoingOf(requirements, reqId) : reqId \in currentReqs} :
        LET target == getRequirementById(requirements, targetId)
        IN target # NULL /\ getTypePrefix(target.id) = targetType}

\* The loop of traceChain from position i of the expected chain (1-based).
RECURSIVE traceFrom(_, _, _, _, _)
traceFrom(requirements, expectedChain, i, currentReqs, actualPath) ==
    IF i > Len(expectedChain)
    THEN [actualPath |-> actualPath, missingLinks |-> <<>>]
    ELSE LET found == foundTargets(requirements, currentReqs, expectedChain[i])
         IN IF found # {}
            THEN traceFrom(requirements, expectedChain, i + 1, found,
                           Append(actualPath, expectedChain[i]))
            ELSE [actualPath |-> actualPath,
                  missingLinks |-> <<expectedChain[i - 1] \o "->" \o expectedChain[i]>>]

traceChain(requirements, startId, expectedChain) ==
    traceFrom(requirements, expectedChain, 2, {startId}, <<getTypePrefix(startId)>>)

RECURSIVE incompleteFrom(_, _, _)
incompleteFrom(requirements, i, expectedChain) ==
    IF i > Len(requirements) THEN <<>>
    ELSE LET startReq == requirements[i]
             rest == incompleteFrom(requirements, i + 1, expectedChain)
         IN IF expectedChain = <<>> \/ getTypePrefix(startReq.id) # expectedChain[1]
            THEN rest
            ELSE LET traced == traceChain(requirements, startReq.id, expectedChain)
                 IN IF Len(traced.missingLinks) > 0
                    THEN << [startId |-> startReq.id,
                             expectedPath |-> expectedChain,
                             actualPath |-> traced.actualPath,
                             missingLinks |-> traced.missingLinks,
                             severity |-> determineCompletenessSeverity(
                                             priorityOf(startReq),
                                             Len(traced.missingLinks))] >> \o rest
                    ELSE rest

verifyHierarchicalCompleteness(requirements, expectedChain) ==
    incompleteFrom(requirements, 1, expectedChain)

\* Link targets: the ids of every prefix and number, and the ids "SYS0" and
\* "DSG0" of no record.
ChainTargets ==
    {TypedId(c, n) : c \in DOMAIN TypePrefixes, n \in 1..NumRecords}
        \cup {TypedId(2, 0), TypedId(3, 0)}

\* No link or one link; a "STK" record may also have two links of different
\* link types to "SYS" ids.
ChainLinks(code) ==
    {NoLinks} \cup {LinksTo("satisfies", <<t>>) : t \in ChainTargets}
        \cup (IF code = 1
              THEN UNION { { [links |-> <<TypedId(2, a)>>, satisfies |-> <<TypedId(2, b)>>] :
                                b \in (a + 1)..NumRecords } : a \in 0..NumRecords }
              ELSE {})

ChainPriorities(code, l) == IF code = 1 /\ l = NoLinks THEN {None, "critical"} ELSE {None}

ChainShapes ==
    UNION { UNION { { [code |-> c, priority |-> pr, links |-> l] :
                         pr \in ChainPriorities(c, l) } : l \in ChainLinks(c) } :
               c \in DOMAIN TypePrefixes }

ChainRecord(code, n, priority, links) ==
    [id |-> TypedId(code, n), type |-> "requirement", status |-> "draft",
     baseline |-> None, priority |-> priority, links |-> links]

ChainRecords(shapeList) ==
    [i \in DOMAIN shapeList |->
        ChainRecord(shapeList[i].code, i, shapeList[i].priority, shapeList[i].links)]

ExpectedChains ==
    { <<>>, <<"STK", "SYS">>, <<"STK", "SYS", "DSG">>, <<"STK", "SYS", "STK">> }

InitCompleteness == \E l \in ListsOf(ChainShapes) : IdleWith(ChainRecords(l))

Completeness(expectedChain) ==
    Ran("completeness", [expectedChain |-> expectedChain],
        verifyHierarchicalCompleteness(reqs, expectedChain))

NextCompleteness == \E expectedChain \in ExpectedChains : Completeness(expectedChain)

SpecCompleteness == InitCompleteness /\ [][NextCompleteness]_vars

\* Start records of every priority: "STK" records with no link or one link
\* to a "SYS" id, "SYS" records with no link or one link to a "DSG" or "STK"
\* id, "DSG" records without links.
SeverityShapes ==
    { [code |-> 1, priority |-> pr, links |-> l] :
         pr \in {None, "critical", "high", "low"},
         l \in {NoLinks} \cup {LinksTo("satisfies", <<TypedId(2, n)>>) : n \in 0..NumRecords} }
    \cup
    { [code |-> 2, priority |-> None, links |-> l] :
         l \in {NoLinks} \cup {LinksTo("links", <<TypedId(3, n)>>) : n \in 0..NumRecords}
                  \cup {LinksTo("links", <<TypedId(1, n)>>) : n \in 1..NumRecords} }
    \cup { [code |-> 3, priority |-> None, links |-> NoLinks] }

InitChainSeverity == \E l \in ListsOf(SeverityShapes) : IdleWith(ChainRecords(l))

SpecChainSeverity == InitChainSeverity /\ [][NextCompleteness]_vars

(***************************************************************************)
(* Baseline Stability Analyzer                                             *)
(***************************************************************************)
\* req.baseline as a condition: an absent or empty baseline is falsy.
hasBaseline(req) == req.baseline # None /\ req.baseline # ""

isApprovedStatus(status) == status \in {"approved", "implemented", "baselined"}

\* The targets that exist and lack a baseline, in link order.
RECURSIVE notBaselinedFrom(_, _, _)
notBaselinedFrom(requirements, outgoing, k) ==
    IF k > Len(outgoing) THEN <<>>
    ELSE LET target == getRequirementById(requirements, outgoing[k])
             rest == notBaselinedFrom(requirements, outgoing, k + 1)
         IN IF target # NULL /\ ~hasBaseline(target) THEN <<outgoing[k]>> \o rest ELSE rest

versionConflictsAnyBaseline(requirements, req, outgoing, k) ==
    [j \in 1..Len(outgoing) |->
        [id |-> req.id, baseline |-> req.baseline, issue |-> "version_conflict",
         severity |-> MEDIUM, affectedIds |-> <<req.id, outgoing[j]>>]]

\* One version_conflict issue per target that exists and has another
\* baseline, in link order.
RECURSIVE versionConflictsFrom(_, _, _, _)
versionConflictsFrom(requirements, req, outgoing, k) ==
    IF k > Len(outgoing) THEN <<>>
    ELSE LET target == getRequirementById(requirements, outgoing[k])
             rest == versionConflictsFrom(requirements, req, outgoing, k + 1)
         IN IF target # NULL /\ hasBaseline(target) /\ target.baseline # req.baseline
            THEN << [id |-> req.id, baseline |-> req.baseline,
                     issue |-> "version_conflict", severity |-> MEDIUM,
                     affectedIds |-> <<req.id, outgoing[k]>>] >> \o rest
            ELSE rest

notApprovedIssue(req, config) ==
    IF config.baselineStability.requireApproved /\ ~isApprovedStatus(statusOf(req))
    THEN << [id |-> req.id, baseline |-> req.baseline, issue |-> "not_approved",
             severity |-> HIGH, affectedIds |-> <<req.id>>] >>
    ELSE <<>>

downstreamIssues(requirements, req, config) ==
    IF config.baselineStability.requireDownstreamBaselined
    THEN LET outgoing == getAllOutgoingLinks(req)
             notBaselined == notBaselinedFrom(requirements, outgoing, 1)
         IN versionConflictsFrom(requirements, req, outgoing, 1)
               \o (IF Len(notBaselined) > 0
                   THEN << [id |-> req.id, baseline |-> req.baseline,
                            issue |-> "downstream_not_baselined", severity |-> MEDIUM,
                            affectedIds |-> <<req.id>> \o notBaselined] >>
                   ELSE <<>>)
    ELSE <<>>

RECURSIVE baselineIssuesFrom(_, _, _)
baselineIssuesFrom(requirements, i, config) ==
    IF i > Len(requirements) THEN <<>>
    ELSE (IF hasBaseline(requirements[i])
          THEN notApprovedIssue(requirements[i], config)
                  \o downstreamIssues(requirements, requirements[i], config)
          ELSE <<>>)
            \o baselineIssuesFrom(requirements, i + 1, config)

analyzeBaselineStability(requirements, config) ==
    baselineIssuesFrom(requirements, 1, config)

BaselineChoices == {None, "", "v1.0.0", "v2.0.0"}

\* No link, one link to any id, or two links (possibly to the same record).
BaselineLinks ==
    {NoLinks} \cup {LinksTo("satisfies", <<t>>) : t \in Targets}
        \cup UNION { {LinksTo("links", <<a, b>>) : b \in a..NumRecords} : a \in 1..NumRecords }

BaselineStatuses(baseline, l) ==
    IF baseline = "v1.0.0" /\ l = NoLinks THEN {None, "approved"} ELSE {None}

BaselineShapes ==
    UNION { UNION { { [type |-> "requirement", status |-> st, baseline |-> b,
                       priority |-> None, links |-> l] : st \in BaselineStatuses(b, l) } :
                       l \in BaselineLinks } : b \in BaselineChoices }

BaselineConfigs ==
    { [baselineStability |-> [requireApproved |-> a, requireDownstreamBaselined |-> d]] :
         a \in BOOLEAN, d \in BOOLEAN }

InitBaseline == \E l \in ListsOf(BaselineShapes) : IdleWith(WithIds(l))

Baseline(config) == Ran("baseline", config, analyzeBaselineStability(reqs, config))

NextBaseline == \E config \in BaselineConfigs : Baseline(config)

SpecBaseline == InitBaseline /\ [][NextBaseline]_vars

(***************************************************************************)
(* Gap Recommendation Synthesizer                                          *)
(***************************************************************************)
\* The concatenation of a sequence of sequences.
RECURSIVE flatten(_, _)
flatten(seqs, k) == IF k > Len(seqs) THEN <<>> ELSE seqs[k] \o flatten(seqs, k + 1)

mapField(findings, field) == [k \in DOMAIN findings |-> findings[k][field]]

recommendation(severity, category, action, affectedCount, affectedIds, estimatedEffort) ==
    [severity |-> severity, category |-> category, action |-> action,
     affectedCount |-> affectedCount, affectedIds |-> affectedIds,
     estimatedEffort |-> estimatedEffort, priority |-> 0]

analyzeCircularDependencies(dependencies) ==
    LET blocker(c) == c.severity = BLOCKER
        high(c) == c.severity = HIGH
        blockerCycles == SelectSeq(dependencies, blocker)
        highCycles == SelectSeq(dependencies, high)
    IN (IF Len(blockerCycles) > 0
        THEN << recommendation(BLOCKER, "circular_dependency", "Break circular dependencies",
                    Cardinality(SeqToSet(flatten(mapField(blockerCycles, "cycle"), 1))),
                    Dedupe(flatten(mapField(blockerCycles, "cycle"), 1), {}),
                    "high") >>
        ELSE <<>>)
       \o (IF Len(highCycles) > 0
           THEN << recommendation(HIGH, "circular_dependency", "Resolve circular dependencies",
                       Cardinality(SeqToSet(flatten(mapField(highCycles, "cycle"), 1))),
                    Dedupe(flatten(mapField(highCycles, "cycle"), 1), {}),
                       "medium") >>
           ELSE <<>>)

effortByCount(count, highAbove, mediumAbove) ==
    IF count > highAbove THEN "high" ELSE IF count > mediumAbove THEN "medium" ELSE "low"

RECURSIVE analyzeCoverageGaps(_, _)
analyzeCoverageGaps(coverage, k) ==
    IF k > Len(coverage) THEN <<>>
    ELSE LET cov == coverage[k]
             gap == cov.threshold - cov.percentage
         IN (IF ~cov.meets_threshold /\ Len(cov.missing) > 0
             THEN << recommendation(
                        IF gap > 20 THEN HIGH ELSE IF gap > 10 THEN MEDIUM ELSE LOW,
                        "coverage", <<"Add links", cov.linkType>>, Len(cov.missing), cov.missing,
                        effortByCount(Len(cov.missing), 20, 10)) >>
             ELSE <<>>)
            \o analyzeCoverageGaps(coverage, k + 1)

analyzeOrphansFromFive(orphans) ==
    LET critical(o) == o.category = "true_orphan" /\ o.severity \in {BLOCKER, HIGH}
        deadEnd(o) == o.category = "dead_end"
        criticalOrphans == SelectSeq(orphans, critical)
        deadEnds == SelectSeq(orphans, deadEnd)
    IN (IF Len(criticalOrphans) > 0
        THEN << recommendation(HIGH, "orphaned", "Link critical orphaned requirements",
                    Len(criticalOrphans), mapField(criticalOrphans, "id"), "high") >>
        ELSE <<>>)
       \o (IF Len(deadEnds) >= 5
           THEN << recommendation(MEDIUM, "orphaned", "Add downstream traceability",
                       Len(deadEnds), mapField(deadEnds, "id"), "high") >>
           ELSE <<>>)

analyzeOrphanedRequirements(orphans) ==
    LET critical(o) == o.category = "true_orphan" /\ o.severity \in {BLOCKER, HIGH}
        deadEnd(o) == o.category = "dead_end"
        criticalOrphans == SelectSeq(orphans, critical)
        deadEnds == SelectSeq(orphans, deadEnd)
    IN (IF Len(criticalOrphans) > 0
        THEN << recommendation(HIGH, "orphaned", "Link critical orphaned requirements",
                    Len(criticalOrphans), mapField(criticalOrphans, "id"), "high") >>
        ELSE <<>>)
       \o (IF Len(deadEnds) > 5
           THEN << recommendation(MEDIUM, "orphaned", "Add downstream traceability",
                       Len(deadEnds), mapField(deadEnds, "id"), "high") >>
           ELSE <<>>)

fromAndTo(inconsistencies) ==
    flatten([k \in DOMAIN inconsistencies |->
                <<inconsistencies[k].fromId, inconsistencies[k].toId>>], 1)

analyzeStatusInconsistencies(inconsistencies) ==
    LET approved(i) == i.violation = "approved_to_draft"
        baselined(i) == i.violation = "baselined_to_draft"
        approvedToDraft == SelectSeq(inconsistencies, approved)
        baselinedToDraft == SelectSeq(inconsistencies, baselined)
    IN (IF Len(baselinedToDraft) > 0
        THEN << recommendation(HIGH, "status_consistency",
                    "Fix baselined requirement status violations",
                    Cardinality(SeqToSet(fromAndTo(baselinedToDraft))),
                    Dedupe(fromAndTo(baselinedToDraft), {}), "medium") >>
        ELSE <<>>)
       \o (IF Len(approvedToDraft) > 0
           THEN << recommendation(MEDIUM, "status_consistency",
                       "Update status of downstream requirements",
                       Cardinality(SeqToSet(mapField(approvedToDraft, "toId"))),
                    Dedupe(mapField(approvedToDraft, "toId"), {}), "low") >>
           ELSE <<>>)

analyzeIncompleteChains(chains) ==
    LET critical(c) == c.severity \in {BLOCKER, HIGH}
        criticalChains == SelectSeq(chains, critical)
    IN IF Len(criticalChains) = 0 THEN <<>>
       ELSE << recommendation(HIGH, "completeness", "Complete critical traceability chains",
                   Len(criticalChains), mapField(criticalChains, "startId"), "high") >>

RECURSIVE analyzePriorityCoverage(_, _)
analyzePriorityCoverage(coverage, k) ==
    IF k > Len(coverage) THEN <<>>
    ELSE LET cov == coverage[k]
         IN (IF ~cov.meets_threshold /\ Len(cov.missing) > 0
             THEN << recommendation(
                        IF cov.priority = "critical" THEN BLOCKER
                        ELSE IF cov.priority = "high" THEN HIGH ELSE MEDIUM,
                        "priority", <<"Add links for priority", cov.priority>>, Len(cov.missing), cov.missing,
                        IF Len(cov.missing) > 10 THEN "high" ELSE "medium") >>
             ELSE <<>>)
            \o analyzePriorityCoverage(coverage, k + 1)

analyzeBaselineIssues(issues) ==
    LET isNotApproved(i) == i.issue = "not_approved"
        isConflict(i) == i.issue = "version_conflict"
        notApproved == SelectSeq(issues, isNotApproved)
        versionConflicts == SelectSeq(issues, isConflict)
    IN (IF Len(notApproved) > 0
        THEN << recommendation(HIGH, "baseline", "Approve baselined requirements",
                    Len(notApproved), mapField(notApproved, "id"), "medium") >>
        ELSE <<>>)
       \o (IF Len(versionConflicts) > 0
           THEN << recommendation(MEDIUM, "baseline", "Resolve baseline version conflicts",
                       Cardinality(SeqToSet(flatten(mapField(versionConflicts, "affectedIds"), 1))),
                    Dedupe(flatten(mapField(versionConflicts, "affectedIds"), 1), {}),
                       "medium") >>
           ELSE <<>>)

\* The ranks of the sort of generateGapRecommendations.
severityOrder ==
    (BLOCKER :> 0) @@ (HIGH :> 1) @@ (MEDIUM :> 2) @@ (LOW :> 3) @@ (INFO :> 4)

compareBySeverityOnly(a, b) == severityOrder[a.severity] - severityOrder[b.severity]

\* The comparator of the sort: negative when a goes before b.
compareRecommendations(a, b) ==
    LET severityDiff == severityOrder[a.severity] - severityOrder[b.severity]
    IN IF severityDiff # 0 THEN severityDiff ELSE b.affectedCount - a.affectedCount

\* recommendations.sort(compare), a stable sort: rec goes behind every
\* element that does not compare greater.
RECURSIVE insertSorted(_, _)
insertSorted(sorted, rec) ==
    IF sorted = <<>> THEN <<rec>>
    ELSE IF compareRecommendations(sorted[Len(sorted)], rec) <= 0
         THEN Append(sorted, rec)
         ELSE Append(insertSorted(SubSeq(sorted, 1, Len(sorted) - 1), rec),
                     sorted[Len(sorted)])

RECURSIVE sortRecommendations(_, _)
sortRecommendations(recommendations, k) ==
    IF k = 0 THEN <<>>
    ELSE insertSorted(sortRecommendations(recommendations, k - 1), recommendations[k])

generateGapRecommendations(report, requirements) ==
    LET recommendations ==
            analyzeCircularDependencies(report.circularDependencies)
               \o analyzeCoverageGaps(report.hierarchicalCoverage, 1)
               \o analyzeOrphanedRequirements(report.orphanedRequirements)
               \o analyzeStatusInconsistencies(report.statusInconsistencies)
               \o analyzeIncompleteChains(report.incompleteChains)
               \o analyzePriorityCoverage(report.priorityWeightedCoverage, 1)
               \o analyzeBaselineIssues(report.baselineIssues)
        sorted == sortRecommendations(recommendations, Len(recommendations))
    IN [k \in DOMAIN sorted |-> [sorted[k] EXCEPT !.priority = k]]

\* The largest number of findings of a report.
MaxFindings == 3

ReportParts ==
    {"circularDependencies", "hierarchicalCoverage", "orphanedRequirements",
     "statusInconsistencies", "incompleteChains", "priorityWeightedCoverage",
     "baselineIssues"}

\* The findings a report is made of, each tagged with the report part it
\* belongs to.
Findings ==
    { [part |-> "circularDependencies", cycle |-> c[1], severity |-> c[2]] :
         c \in { <<(<<1, 2, 1>>), BLOCKER>>, <<(<<2, 3, 2>>), BLOCKER>>,
                 <<(<<1, 2, 3, 1>>), HIGH>>, <<(<<1, 3, 1>>), MEDIUM>>,
                 <<(<<2, 3, 2>>), LOW>> } }
    \cup
    { [part |-> "hierarchicalCoverage", linkType |-> "satisfies", percentage |-> c[1],
       threshold |-> 80, meets_threshold |-> c[1] >= 80, missing |-> c[2]] :
         c \in { <<50, (<<1>>)>>, <<67, (<<1, 2>>)>>, <<75, (<<3>>)>>,
                 <<100, (<<>>)>>, <<0, (<<>>)>> } }
    \cup
    { [part |-> "orphanedRequirements", id |-> c[1], category |-> c[2], severity |-> c[3]] :
         c \in { <<1, "true_orphan", HIGH>>, <<2, "true_orphan", MEDIUM>>,
                 <<3, "dead_end", LOW>>, <<1, "source_only", LOW>> } }
    \cup
    { [part |-> "statusInconsistencies", fromId |-> c[1], toId |-> c[2], violation |-> c[3]] :
         c \in { <<1, 2, "approved_to_draft">>, <<3, 2, "approved_to_draft">>,
                 <<1, 2, "implemented_to_draft">>, <<1, 3, "baselined_to_draft">>,
                 <<2, 3, "baselined_to_draft">> } }
    \cup
    { [part |-> "incompleteChains", startId |-> c[1], severity |-> c[2]] :
         c \in { <<1, BLOCKER>>, <<2, MEDIUM>> } }
    \cup
    { [part |-> "priorityWeightedCoverage", priority |-> c[1], percentage |-> c[2],
       threshold |-> c[3], meets_threshold |-> c[2] >= c[3], missing |-> c[4]] :
         c \in { <<"critical", 50, 100, (<<1>>)>>, <<"high", 33, 90, (<<1, 2>>)>>,
                 <<"medium", 100, 80, (<<>>)>>, <<"low", 0, 50, (<<3>>)>> } }
    \cup
    { [part |-> "baselineIssues", id |-> c[1], issue |-> c[2], affectedIds |-> c[3]] :
         c \in { <<1, "not_approved", (<<1>>)>>, <<1, "version_conflict", (<<1, 2>>)>>,
                 <<2, "version_conflict", (<<2, 3>>)>>,
                 <<1, "downstream_not_baselined", (<<1, 3>>)>> } }

\* The report holding the given findings, each in its part, in their order.
ReportOf(findings) ==
    [p \in ReportParts |-> LET inPart(f) == f.part = p IN SelectSeq(findings, inPart)]

Reports == {ReportOf(f) : f \in UNION {[1..n -> Findings] : n \in 0..MaxFindings}}

InitGaps == IdleWith(<<>>)

Gaps(report) == Ran("gaps", report, generateGapRecommendations(report, reqs))

\* The call is made once, from the idle state.
NextGaps == pc = "idle" /\ \E report \in Reports : Gaps(report)

SpecGaps == InitGaps /\ [][NextGaps]_vars

\* Reports of orphans and incomplete chains only: up to MaxDeadEnds dead
\* ends, up to two true orphans, a source-only record or none, up to two
\* incomplete chains.  Ids are the positions in the list.
MaxDeadEnds == 6

ListsUpToTwo(S) == UNION {[1..n -> S] : n \in 0..2}

OrphanFindings(deadEnds, trueOrphans, sourceOnly) ==
    LET listed == [k \in 1..deadEnds |-> [category |-> "dead_end", severity |-> LOW]]
                     \o [k \in DOMAIN trueOrphans |->
                            [category |-> "true_orphan", severity |-> trueOrphans[k]]]
                     \o [k \in 1..sourceOnly |-> [category |-> "source_only", severity |-> LOW]]
    IN [k \in DOMAIN listed |-> [id |-> k] @@ listed[k]]

BucketReports ==
    { [ReportOf(<<>>) EXCEPT
          !.orphanedRequirements = OrphanFindings(d, t, s),
          !.incompleteChains = [k \in DOMAIN c |-> [startId |-> k, severity |-> c[k]]]] :
         d \in 0..MaxDeadEnds, t \in ListsUpToTwo({BLOCKER, HIGH, MEDIUM, LOW}),
         s \in 0..1, c \in ListsUpToTwo({BLOCKER, HIGH, MEDIUM}) }

NextBuckets == pc = "idle" /\ \E report \in BucketReports : Gaps(report)

SpecBuckets == InitGaps /\ [][NextBuckets]_vars

(***************************************************************************)
(* Claims about the index (checked under Spec)                             *)
(***************************************************************************)
Held(id) == index.objects[id] # NULL
LinksOf(id) == SeqToSet(AllTargets(index.objects[id].links))

KeysListing(ix, id) == {k \in DOMAIN ix : id \in ix[k]}

ListedExactly(ix, field) ==
    \A k \in DOMAIN ix : \A id \in IndexIds :
        id \in ix[k] <=> (Held(id) /\ index.objects[id][field] = k)

\* C3: no stale entry is observable. Every id listed under a key of a
\* secondary index is a held record with that key and every held record is
\* listed under its keys; every linkGraph entry is contributed by a held
\* record; after removeByFile(f) no record of file f is left in the primary
\* map or under the file key.
C3_NoStaleEntries ==
    /\ ListedExactly(index.fileIndex, "file")
    /\ ListedExactly(index.typeIndex, "type")
    /\ ListedExactly(index.levelIndex, "level")
    /\ ListedExactly(index.statusIndex, "status")
    /\ ListedExactly(index.baselines, "baseline")
    /\ \A a \in IndexIds : \A b \in index.linkGraph[a] :
          \/ Held(a) /\ b \in LinksOf(a)
          \/ b \in IndexIds /\ Held(b) /\ a \in LinksOf(b)
    /\ lastOp.kind = "removeByFile" =>
          /\ \A id \in IndexIds : Held(id) => index.objects[id].file # lastOp.file
          /\ index.fileIndex[lastOp.file] = {}
          /\ \A id \in lastOp.removed : ~Held(id)

\* A removeByFile has removed a record that linked to a record still held,
\* and nothing of the link is left in linkGraph.
C3_Witness ==
    /\ lastOp.kind = "removeByFile"
    /\ lastOp.removed # {}
    /\ \E a \in lastOp.removed : \E b \in IndexIds :
          /\ Held(b) /\ a # b
          /\ index.objects[b].baseline = None
          /\ a \notin index.linkGraph[b]
          /\ index.linkGraph[a] = {}

(***************************************************************************)
(* Claims about the cycle detectors (checked under SpecCycle)              *)
(***************************************************************************)
CycleSet == SeqToSet(cycles)
IsRecord(id) == id \in RecordIds(reqs)
RecordOf(id) == CHOOSE r \in SeqToSet(reqs) : r.id = id

\* a links to b under some link type (a is a record).
IsLink(a, b) == IsRecord(a) /\ b \in SeqToSet(AllTargets(RecordOf(a).links))
IsLinkOfType(a, b, lt) == IsRecord(a) /\ b \in SeqToSet(RecordOf(a).links[lt])

GradeOfLength(length) ==
    IF length <= 2 THEN HIGH ELSE IF length <= 5 THEN MEDIUM ELSE LOW

\* C4: every cycle reported by the Tarjan based detector is graded by its
\* reported length: length <= 2 HIGH, 3 to 5 MEDIUM, >= 6 LOW (default
\* configuration); A -> B, B -> A is one cycle of length 2, HIGH.
C4_SeverityByReportedLength ==
    pc = "detected" =>
        \A c \in CycleSet : c.severity = GradeOfLength(c.length)

\* All orders of a record list.
Reorderings(requirements) ==
    { [i \in DOMAIN requirements |-> requirements[p[i]]] :
        p \in Permutations(DOMAIN requirements) }

SmallestOf(s) == CHOOSE x \in SeqToSet(s) : \A y \in SeqToSet(s) : x <= y

\* A closed path without its closing id.
Open(cycle) ==
    IF Len(cycle) > 1 /\ cycle[1] = cycle[Len(cycle)]
    THEN SubSeq(cycle, 1, Len(cycle) - 1) ELSE cycle

Rotate(s, k) == SubSeq(s, k, Len(s)) \o SubSeq(s, 1, k - 1)
IsRotation(s, t) == Len(s) = Len(t) /\ \E k \in DOMAIN s : Rotate(s, k) = t

\* A cycle rotated to start at its smallest id.
Canonical(cycle) ==
    LET o == Open(cycle)
    IN Rotate(o, CHOOSE k \in DOMAIN o : o[k] = SmallestOf(o) /\ \A j \in 1..(k - 1) : o[j] # o[k])

CanonicalCycles(found) == {Canonical(found[i].cycle) : i \in DOMAIN found}

\* C5: the set of returned cycles, each in canonical form, is the same for
\* every order in which the records are passed to the detector.
C5_OrderIndependent ==
    pc = "detected" =>
        \A other \in Reorderings(reqs) :
            CanonicalCycles(detectCircularDependencies(other, DefaultCycleSeverity))
                = CanonicalCycles(cycles)

\* Ids reachable from the ids in `from` by one or more links between records.
RECURSIVE ReachableIn(_, _, _)
ReachableIn(frontier, seen, k) ==
    LET next == {b \in Ids : IsRecord(b) /\ \E a \in frontier : IsLink(a, b)}
    IN IF k = 0 \/ next \subseteq seen THEN seen \cup next
       ELSE ReachableIn(next, seen \cup next, k - 1)

ReachableFrom(a) == ReachableIn({a}, {}, NumIds)

HasDirectedCycle == \E a \in Ids : IsRecord(a) /\ a \in ReachableFrom(a)

\* C6: the detector returns no cycle if and only if the union of all link
\* types over the records has no directed cycle (a self-link is a cycle,
\* links to ids without a record close none).
C6_EmptyIffAcyclic ==
    pc = "detected" => (cycles = <<>> <=> ~HasDirectedCycle)

\* A record list with a link to an id that has no record, and a cycle
\* among the records.
C6_Witness ==
    /\ pc = "detected"
    /\ cycles # <<>>
    /\ \E a \in Ids, b \in Ids : IsLink(a, b) /\ ~IsRecord(b)
    /\ \E a \in Ids, b \in Ids : a # b /\ IsLink(a, b) /\ IsLink(b, a)

\* The record's only links are one link type's links to itself.
OnlySelfLinked(r) ==
    \E lt \in LinkTypes :
        /\ r.links[lt] = <<r.id>>
        /\ \A other \in LinkTypes \ {lt} : r.links[other] = <<>>

\* C7: a record whose single link type points only to itself yields
\* exactly one reported cycle, <<id, id>>, of length 1 and severity HIGH.
C7_SelfLoop ==
    pc = "detected" =>
        \A i \in DOMAIN reqs :
            OnlySelfLinked(reqs[i]) =>
                /\ Cardinality({j \in DOMAIN cycles :
                        reqs[i].id \in SeqToSet(cycles[j].cycle)}) = 1
                /\ \A j \in DOMAIN cycles :
                      reqs[i].id \in SeqToSet(cycles[j].cycle) =>
                          /\ cycles[j].cycle = <<reqs[i].id, reqs[i].id>>
                          /\ cycles[j].length = 1
                          /\ cycles[j].severity = HIGH
                /\ Len(reqs) = 1 => Len(cycles) = 1

\* A self-linked record that another record links to, next to a second cycle.
C7_Witness ==
    /\ pc = "detected"
    /\ Len(cycles) >= 2
    /\ \E i \in DOMAIN reqs :
          /\ OnlySelfLinked(reqs[i])
          /\ \E a \in Ids : a # reqs[i].id /\ IsLink(a, reqs[i].id)

StartsAtSmallest(cycle) == cycle[1] = SmallestOf(cycle)

NoRotations(found) ==
    \A i \in DOMAIN found : \A j \in DOMAIN found :
        i # j => ~IsRotation(Open(found[i]), Open(found[j]))

TarjanPaths == [i \in DOMAIN cycles |-> cycles[i].cycle]

\* C8 as stated: every cycle returned by a cycle detector starts at the
\* smallest id on the cycle, and no two returned cycles are rotations of
\* one another.
C8_AllCanonical ==
    pc = "detected" =>
        /\ \A i \in DOMAIN cycles : StartsAtSmallest(cycles[i].cycle)
        /\ \A i \in DOMAIN dfsCycles : StartsAtSmallest(dfsCycles[i])
        /\ NoRotations(TarjanPaths)
        /\ NoRotations(dfsCycles)

\* C8 as amended: the cycles of the depth-first detector start at their
\* smallest id and no two of them are rotations of one another; no two
\* cycles of the Tarjan based detector are rotations of one another (its
\* node sequences start where the component was popped).
C8_DfsCanonicalNoRotations ==
    pc = "detected" =>
        /\ \A i \in DOMAIN dfsCycles : StartsAtSmallest(dfsCycles[i])
        /\ NoRotations(dfsCycles)
        /\ NoRotations(TarjanPaths)

\* The depth-first detector returns two cycles through a shared record and
\* the Tarjan based one a cycle that does not start at its smallest id.
C8_Witness ==
    /\ pc = "detected"
    /\ Len(dfsCycles) >= 2
    /\ \E i \in DOMAIN dfsCycles, j \in DOMAIN dfsCycles :
          i # j /\ SeqToSet(dfsCycles[i]) \cap SeqToSet(dfsCycles[j]) # {}
    /\ \E i \in DOMAIN cycles : ~StartsAtSmallest(cycles[i].cycle)
    /\ reqs[1].id # 1

\* C9: linkTypes of a reported cycle is exactly the set of link types under
\* which some consecutive pair of its node sequence is linked.
C9_LinkTypesTraversed ==
    pc = "detected" =>
        \A c \in CycleSet :
            c.linkTypes =
                { lt \in LinkTypes :
                    \E i \in 1..(Len(c.cycle) - 1) :
                        IsLinkOfType(c.cycle[i], c.cycle[i + 1], lt) }

(***************************************************************************)
(* Claims about findMinimalCycle (checked under SpecMinimal)               *)
(***************************************************************************)
\* Number of links of the shortest walk (one link or more) from b to a;
\* 0 when there is none.
RECURSIVE StepsTo(_, _, _)
StepsTo(frontier, a, k) ==
    LET next == {y \in Ids : \E x \in frontier : IsLink(x, y)}
    IN IF k > NumIds THEN 0
       ELSE IF a \in next THEN k
       ELSE StepsTo(next, a, k + 1)

Distance(b, a) == StepsTo({b}, a, 1)

MinimalFrom == minArgs[1]
MinimalTo == minArgs[2]

MinimalShape(firstPair) ==
    /\ minCycle = NULL <=> Distance(MinimalTo, MinimalFrom) = 0
    /\ minCycle # NULL =>
          /\ Len(minCycle) >= 2
          /\ minCycle[1] = MinimalFrom
          /\ minCycle[2] = MinimalTo
          /\ \A i \in firstPair..(Len(minCycle) - 1) : IsLink(minCycle[i], minCycle[i + 1])
          /\ IsLink(minCycle[Len(minCycle)], MinimalFrom)
          /\ Len(minCycle) - 1 = Distance(MinimalTo, MinimalFrom)

\* C10 as stated: null exactly when a is not reachable from b; otherwise
\* [a, b, ..., x] with every consecutive pair a link, x linking to a, and
\* no shorter cycle through a -> b.
C10_MinimalCycleAllPairsLinked ==
    pc = "minimal" => MinimalShape(1)

\* C10 as amended: as stated, except that the first pair a -> b is whatever
\* the caller passed (it is a link only if the caller passed one): every
\* consecutive pair from b on is a link.
C10_MinimalCycle ==
    pc = "minimal" =>
        /\ MinimalShape(2)
        /\ IsLink(MinimalFrom, MinimalTo) => MinimalShape(1)

\* The edge a -> b closes a cycle of two and a longer one through a third
\* record; the cycle of two is returned.
C10_Witness ==
    /\ pc = "minimal"
    /\ MinimalFrom # MinimalTo
    /\ IsLink(MinimalFrom, MinimalTo)
    /\ IsLink(MinimalTo, MinimalFrom)
    /\ \E x \in Ids \ {MinimalFrom, MinimalTo} :
          IsLink(MinimalTo, x) /\ IsLink(x, MinimalFrom)
    /\ minCycle = <<MinimalFrom, MinimalTo>>

(***************************************************************************)
(* Claims about the coverage analyzer (checked under SpecCoverage)         *)
(***************************************************************************)
\* The source records of a rule and those of them the rule covers.
SourcesOf(rule) == {i \in DOMAIN reqs : reqs[i].type \in rule.fromTypes}

CoveredBy(rule, i) ==
    /\ rule.linkType \in DOMAIN reqs[i].links
    /\ \E k \in DOMAIN reqs[i].links[rule.linkType] :
          \E j \in DOMAIN reqs :
              /\ reqs[j].id = reqs[i].links[rule.linkType][k]
              /\ reqs[j].type \in rule.toTypes

\* p is the integer nearest to 100 * part / total (halves up).
IsRoundedPercent(p, part, total) ==
    /\ 2 * (100 * part - p * total) <= total
    /\ 2 * (p * total - 100 * part) < total

\* A --implements--> B --implements--> C.
ScenarioChain ==
    << [id |-> 1, type |-> "requirement", links |-> [lt \in {"implements"} |-> <<2>>]],
       [id |-> 2, type |-> "design_element", links |-> [lt \in {"implements"} |-> <<3>>]],
       [id |-> 3, type |-> "parameter", links |-> [lt \in {"implements"} |-> <<>>]] >>

ScenarioCoverage ==
    calculateCoverageForLinkType(ScenarioChain, "implements",
        {"requirement", "design_element"}, {"design_element", "parameter"}, 80)

\* C11: for each hierarchical coverage rule total is the number of records
\* whose type is in fromTypes, the covered records are exactly the source
\* records with a link of the rule's link type to an existing record whose
\* type is in toTypes, missing lists exactly the other source records (so
\* covered + |missing| = total), percentage is the rounded percentage and
\* meets_threshold holds iff it is >= threshold; A -implements-> B
\* -implements-> C gives total 2, covered 2, percentage 100, threshold met.
C11_HierarchicalCoverage ==
    /\ pc = "coverage" =>
          \A k \in DOMAIN out.hierarchical :
              LET r == out.hierarchical[k]
                  rule == cfg.hierarchicalCoverage[k]
                  covered == {i \in SourcesOf(rule) : CoveredBy(rule, i)}
              IN /\ r.total = Cardinality(SourcesOf(rule))
                 /\ r.withLinks = Cardinality(covered)
                 /\ SeqToSet(r.missing) = {reqs[i].id : i \in SourcesOf(rule) \ covered}
                 /\ Len(r.missing) = Cardinality(SourcesOf(rule) \ covered)
                 /\ r.withLinks + Len(r.missing) = r.total
                 /\ r.total > 0 => IsRoundedPercent(r.percentage, r.withLinks, r.total)
                 /\ r.meets_threshold <=> r.percentage >= rule.threshold
    /\ ScenarioCoverage.total = 2
    /\ ScenarioCoverage.withLinks = 2
    /\ ScenarioCoverage.percentage = 100
    /\ ScenarioCoverage.meets_threshold
    /\ ScenarioCoverage.missing = <<>>

\* One source record is covered through its second target, the other links
\* to a record of a wrong type: half covered, threshold missed.
C11_Witness ==
    /\ pc = "coverage"
    /\ \E k \in DOMAIN out.hierarchical :
          LET r == out.hierarchical[k]
              rule == cfg.hierarchicalCoverage[k]
          IN /\ r.total = 2 /\ r.withLinks = 1 /\ r.percentage = 50
             /\ ~r.meets_threshold
             /\ \E i \in SourcesOf(rule) :
                   CoveredBy(rule, i) /\ reqs[i].links[rule.linkType][1] = 0
             /\ \E i \in SourcesOf(rule) :
                   /\ ~CoveredBy(rule, i)
                   /\ Len(reqs[i].links[rule.linkType]) > 0
                   /\ reqs[i].links[rule.linkType][1] \in RecordIds(reqs)

IsPercentage(p) == p \in 0..100

\* C12: every coverage computation (hierarchical rule, priority bucket,
\* overall score, calculateCoverage) reports percentage 0 when its total is
\* 0 and otherwise an integer between 0 and 100.
C12_PercentageTotal ==
    pc = "coverage" =>
        /\ \A k \in DOMAIN out.hierarchical :
              /\ IsPercentage(out.hierarchical[k].percentage)
              /\ out.hierarchical[k].total = 0 => out.hierarchical[k].percentage = 0
        /\ \A k \in DOMAIN out.priority :
              /\ IsPercentage(out.priority[k].percentage)
              /\ out.priority[k].total = 0 => out.priority[k].percentage = 0
        /\ IsPercentage(out.overall)
        /\ (\A k \in DOMAIN out.hierarchical : out.hierarchical[k].total = 0)
              => out.overall = 0
        /\ IsPercentage(out.simple.percentage)
        /\ out.simple.total = 0 => out.simple.percentage = 0

\* A rule without source records next to one with a covered source record,
\* and an empty priority bucket next to a full one.
C12_Witness ==
    /\ pc = "coverage"
    /\ \E k \in DOMAIN out.hierarchical :
          out.hierarchical[k].total = 0 /\ out.hierarchical[k].percentage = 0
    /\ \E k \in DOMAIN out.hierarchical : out.hierarchical[k].percentage = 100
    /\ out.overall = 100
    /\ \E k \in DOMAIN out.priority : out.priority[k].total = 0
    /\ \E k \in DOMAIN out.priority : out.priority[k].percentage = 50
    /\ out.simple.percentage = 50

(***************************************************************************)
(* Claims about the orphan classifier (checked under SpecOrphan)           *)
(***************************************************************************)
OutDegree(i) == Len(AllTargets(reqs[i].links))

\* Number of other records that link to record i.
InDegree(i) ==
    Cardinality({j \in DOMAIN reqs :
        j # i /\ reqs[i].id \in SeqToSet(AllTargets(reqs[j].links))})

SelfLinked(i) == reqs[i].id \in SeqToSet(AllTargets(reqs[i].links))

ReportsOf(id) == {k \in DOMAIN out : out[k].id = id}

ReportedAs(id, category) ==
    /\ Cardinality(ReportsOf(id)) = 1
    /\ \A k \in ReportsOf(id) : out[k].category = category

\* C13: every record gets exactly one outcome from its out-degree (links
\* of all types) and its in-degree (records linking to it): 0/0
\* true_orphan, 0/>0 dead_end, >0/0 source_only, >0/>0 no report.  (A
\* record whose only incoming link is its own is source_only or unreported.)
C13_OrphanClassification ==
    pc = "orphans" =>
        /\ \A k \in DOMAIN out : out[k].id \in RecordIds(reqs)
        /\ \A i \in DOMAIN reqs :
              IF SelfLinked(i) /\ InDegree(i) = 0
              THEN ReportedAs(reqs[i].id, "source_only") \/ ReportsOf(reqs[i].id) = {}
              ELSE IF OutDegree(i) = 0 /\ InDegree(i) = 0
              THEN ReportedAs(reqs[i].id, "true_orphan")
              ELSE IF OutDegree(i) = 0 /\ InDegree(i) > 0
              THEN ReportedAs(reqs[i].id, "dead_end")
              ELSE IF OutDegree(i) > 0 /\ InDegree(i) = 0
              THEN ReportedAs(reqs[i].id, "source_only")
              ELSE ReportsOf(reqs[i].id) = {}

\* A source_only record linking to a dead_end record.
C13_Witness ==
    /\ pc = "orphans"
    /\ Len(out) = 2
    /\ \E a \in DOMAIN out, b \in DOMAIN out :
          /\ out[a].category = "source_only"
          /\ out[b].category = "dead_end"
          /\ out[a].outgoingCount = 1
          /\ out[b].incomingCount = 1

SeverityOrder == <<BLOCKER, HIGH, MEDIUM, LOW, INFO>>
severityRank(sev) == CHOOSE k \in DOMAIN SeverityOrder : SeverityOrder[k] = sev

\* One step down the severity scale (INFO stays INFO).
Lowered(sev) ==
    IF severityRank(sev) = Len(SeverityOrder) THEN sev
    ELSE SeverityOrder[severityRank(sev) + 1]

TablePriorities == {"critical", "high", "medium", "low"}

OrphanSeverityByTable(table) ==
    \A k \in DOMAIN out :
        out[k].priority \in TablePriorities =>
            out[k].severity =
                IF out[k].category = "true_orphan" THEN table[out[k].priority]
                ELSE Lowered(table[out[k].priority])

\* C14: a true_orphan gets the severity the configured table assigns to
\* its priority, a dead_end or source_only orphan that severity lowered by
\* one step, for every configured table.
C14_OrphanSeverityByTable ==
    pc = "orphans" => OrphanSeverityByTable(cfg.orphanSeverity)

(***************************************************************************)
(* Claims about the status checkers (checked under SpecStatus)             *)
(***************************************************************************)
Occurrences(seq, x) == Cardinality({k \in DOMAIN seq : seq[k] = x})

ApprovedToDraft ==
    {k \in DOMAIN out.inconsistencies :
        out.inconsistencies[k].violation = "approved_to_draft"}

\* C15: with approved-chain enforcement on, every link from an approved
\* record to an existing draft record produces exactly one approved_to_draft
\* inconsistency with chain <<fromId, toId>>, both statuses and the link
\* type of the link; with enforcement off there is no approved_to_draft
\* inconsistency.
C15_ApprovedToDraft ==
    pc = "status" =>
        IF cfg.statusConsistency.enforceApprovedChain
        THEN \A i \in DOMAIN reqs, j \in DOMAIN reqs, lt \in LinkTypes :
                (reqs[i].status = "approved" /\ reqs[j].status = "draft") =>
                    LET found == {k \in ApprovedToDraft :
                                    /\ out.inconsistencies[k].fromId = reqs[i].id
                                    /\ out.inconsistencies[k].toId = reqs[j].id
                                    /\ out.inconsistencies[k].linkType = lt}
                    IN /\ Cardinality(found) = Occurrences(reqs[i].links[lt], reqs[j].id)
                       /\ \A k \in found :
                             /\ out.inconsistencies[k].chain = <<reqs[i].id, reqs[j].id>>
                             /\ out.inconsistencies[k].fromStatus = "approved"
                             /\ out.inconsistencies[k].toStatus = "draft"
        ELSE ApprovedToDraft = {}

\* An approved record links twice to a draft record: two inconsistencies.
C15_Witness ==
    /\ pc = "status"
    /\ cfg.statusConsistency.enforceApprovedChain
    /\ Cardinality(ApprovedToDraft) = 2
    /\ \E i \in DOMAIN reqs, j \in DOMAIN reqs :
          /\ reqs[i].status = "approved" /\ reqs[j].status = "draft"
          /\ Occurrences(reqs[i].links["links"], reqs[j].id) = 2

\* Reports of either checker about the link from record i to record j.
IssuesAbout(i, j) ==
    {k \in DOMAIN out.issues :
        out.issues[k].fromId = reqs[i].id /\ out.issues[k].relatedIds = <<reqs[j].id>>}

InconsistenciesAbout(i, j) ==
    {k \in DOMAIN out.inconsistencies :
        out.inconsistencies[k].fromId = reqs[i].id /\ out.inconsistencies[k].toId = reqs[j].id}

Linked(i, j) == reqs[j].id \in SeqToSet(AllTargets(reqs[i].links))

\* The status words detectStatusViolation compares with.
KnownStatusWords == {"approved", "implemented", "baselined", "draft", "review"}

HasTypedPath(requirements, s, expectedChain, n) ==
    \E p \in [1..n -> DOMAIN requirements] :
        /\ p[1] = s
        /\ \A k \in 1..n : getTypePrefix(requirements[p[k]].id) = expectedChain[k]
        /\ \A k \in 1..(n - 1) :
              requirements[p[k + 1]].id \in SeqToSet(AllTargets(requirements[p[k]].links))

\* The first position of the expected chain no typed path from s reaches.
FirstBreak(requirements, s, expectedChain) ==
    CHOOSE n \in 2..Len(expectedChain) :
        /\ ~HasTypedPath(requirements, s, expectedChain, n)
        /\ HasTypedPath(requirements, s, expectedChain, n - 1)

TracedAsSpecified(requirements, expectedChain, result) ==
    \A s \in DOMAIN requirements :
        LET reports == {k \in DOMAIN result : result[k].startId = requirements[s].id}
        IN IF /\ expectedChain # <<>>
              /\ getTypePrefix(requirements[s].id) = expectedChain[1]
              /\ ~HasTypedPath(requirements, s, expectedChain, Len(expectedChain))
           THEN /\ Cardinality(reports) = 1
                /\ \A k \in reports :
                      LET n == FirstBreak(requirements, s, expectedChain)
                      IN /\ result[k].missingLinks =
                               <<expectedChain[n - 1] \o "->" \o expectedChain[n]>>
                         /\ result[k].actualPath = SubSeq(expectedChain, 1, n - 1)
                         /\ result[k].expectedPath = expectedChain
           ELSE reports = {}

\* STK1 links to SYS1 and SYS2, DSG1 exists; only SYS2 links on, to the
\* given target.
ScenarioFrontier(target) ==
    << ChainRecord(1, 1, None,
                   [links |-> <<TypedId(2, 1)>>, satisfies |-> <<TypedId(2, 2)>>]),
       ChainRecord(2, 1, None, NoLinks),
       ChainRecord(2, 2, None, LinksTo("links", <<target>>)),
       ChainRecord(3, 1, None, NoLinks) >>

ScenarioChainTypes == <<"STK", "SYS", "DSG">>

ScenarioTraced(target) ==
    verifyHierarchicalCompleteness(ScenarioFrontier(target), ScenarioChainTypes)

\* C17: a record of the first expected type is reported if and only if no
\* path of existing records through the expected types starts at it; the
\* reported break names the first expected type no such path reaches and
\* the type before it, and actualPath is the expected chain before the
\* break.  A link to the id of no record extends no chain.
C17_HierarchicalCompleteness ==
    /\ pc = "completeness" => TracedAsSpecified(reqs, cfg.expectedChain, out)
    /\ ScenarioTraced(TypedId(3, 1)) = <<>>
    /\ TracedAsSpecified(ScenarioFrontier(TypedId(3, 1)), ScenarioChainTypes,
                         ScenarioTraced(TypedId(3, 1)))
    /\ Len(ScenarioTraced(TypedId(3, 0))) = 1
    /\ ScenarioTraced(TypedId(3, 0))[1].missingLinks = <<"SYS->DSG">>
    /\ ScenarioTraced(TypedId(3, 0))[1].actualPath = <<"STK", "SYS">>
    /\ TracedAsSpecified(ScenarioFrontier(TypedId(3, 0)), ScenarioChainTypes,
                         ScenarioTraced(TypedId(3, 0)))

\* A start record reaches a "SYS" record whose only link is to the id of no
\* record of type "DSG": reported with the break after "SYS".
C17_Witness ==
    /\ pc = "completeness"
    /\ cfg.expectedChain = <<"STK", "SYS", "DSG">>
    /\ Len(out) = 1
    /\ out[1].missingLinks = <<"SYS->DSG">>
    /\ out[1].actualPath = <<"STK", "SYS">>
    /\ \E i \in DOMAIN reqs :
          /\ getTypePrefix(reqs[i].id) = "SYS"
          /\ AllTargets(reqs[i].links) = <<TypedId(3, 0)>>

(***************************************************************************)
(* Claims about the baseline stability analyzer (checked under             *)
(* SpecBaseline)                                                           *)
(***************************************************************************)
IssuesOf(i, kind) ==
    {k \in DOMAIN out : out[k].id = reqs[i].id /\ out[k].issue = kind}

\* Record j exists, so a link to its id is a link to an existing target.
LacksBaseline(j) == ~hasBaseline(reqs[j])

OtherBaseline(i, j) == hasBaseline(reqs[j]) /\ reqs[j].baseline # reqs[i].baseline

\* The targets of record i that exist and lack a baseline, in link order.
NotBaselinedTargets(i) ==
    LET lacks(t) == \E j \in DOMAIN reqs : reqs[j].id = t /\ LacksBaseline(j)
    IN SelectSeq(AllTargets(reqs[i].links), lacks)

IssuesOnlyForBaselined ==
    \A k \in DOMAIN out :
        \E i \in DOMAIN reqs :
            /\ reqs[i].id = out[k].id
            /\ hasBaseline(reqs[i])
            /\ out[k].baseline = reqs[i].baseline

\* C18 as stated: issues are raised only for records with a non-empty
\* baseline, and for such a record every link to an existing target without
\* baseline is named by a downstream_not_baselined issue (MEDIUM) of the
\* record, every link to a target with a different baseline by a
\* version_conflict issue (MEDIUM) naming both ids, and no other link is
\* named by an issue.
C18_EveryLinkChecked ==
    pc = "baseline" =>
        /\ IssuesOnlyForBaselined
        /\ \A i \in DOMAIN reqs, j \in DOMAIN reqs :
              (hasBaseline(reqs[i]) /\ Linked(i, j)) =>
                 /\ LacksBaseline(j) =>
                       \E k \in IssuesOf(i, "downstream_not_baselined") :
                           /\ out[k].severity = MEDIUM
                           /\ reqs[j].id \in SeqToSet(Tail(out[k].affectedIds))
                 /\ OtherBaseline(i, j) =>
                       \E k \in IssuesOf(i, "version_conflict") :
                           /\ out[k].severity = MEDIUM
                           /\ out[k].affectedIds = <<reqs[i].id, reqs[j].id>>
        /\ \A k \in DOMAIN out :
              out[k].issue \in {"downstream_not_baselined", "version_conflict"} =>
                 \A t \in SeqToSet(Tail(out[k].affectedIds)) :
                    \E i \in DOMAIN reqs, j \in DOMAIN reqs :
                       /\ reqs[i].id = out[k].id /\ reqs[j].id = t /\ Linked(i, j)
                       /\ IF out[k].issue = "version_conflict"
                          THEN OtherBaseline(i, j) ELSE LacksBaseline(j)

\* C18 as amended: issues are raised only for records with a non-empty
\* baseline.  With requireDownstreamBaselined on, such a record gets one
\* version_conflict issue (MEDIUM, naming both ids) per link to a target with
\* a different baseline, and, if it links to existing targets without
\* baseline, one downstream_not_baselined issue (MEDIUM) naming the record
\* and these targets in link order; links to targets with the same baseline
\* or to the id of no record raise nothing.  With requireDownstreamBaselined
\* off no link is checked.
C18_BaselineStability ==
    pc = "baseline" =>
        /\ IssuesOnlyForBaselined
        /\ \A k \in DOMAIN out :
              out[k].issue \in {"not_approved", "downstream_not_baselined", "version_conflict"}
        /\ \A i \in DOMAIN reqs :
              LET checked == /\ hasBaseline(reqs[i])
                             /\ cfg.baselineStability.requireDownstreamBaselined
              IN /\ Cardinality(IssuesOf(i, "downstream_not_baselined")) =
                       (IF checked /\ NotBaselinedTargets(i) # <<>> THEN 1 ELSE 0)
                 /\ \A k \in IssuesOf(i, "downstream_not_baselined") :
                       /\ out[k].severity = MEDIUM
                       /\ out[k].affectedIds = <<reqs[i].id>> \o NotBaselinedTargets(i)
                 /\ \A k \in IssuesOf(i, "version_conflict") : out[k].severity = MEDIUM
                 /\ \A j \in DOMAIN reqs :
                       Cardinality({k \in IssuesOf(i, "version_conflict") :
                                       out[k].affectedIds = <<reqs[i].id, reqs[j].id>>}) =
                          (IF checked /\ OtherBaseline(i, j)
                           THEN Occurrences(AllTargets(reqs[i].links), reqs[j].id)
                           ELSE 0)
                 /\ \A k \in IssuesOf(i, "version_conflict") :
                       \E j \in DOMAIN reqs : out[k].affectedIds = <<reqs[i].id, reqs[j].id>>

\* A baselined record links twice to a record without baseline: one issue
\* naming the record and the target twice.
C18_Witness ==
    /\ pc = "baseline"
    /\ cfg.baselineStability.requireDownstreamBaselined
    /\ \E i \in DOMAIN reqs :
          /\ hasBaseline(reqs[i])
          /\ Cardinality(IssuesOf(i, "downstream_not_baselined")) = 1
          /\ \A k \in IssuesOf(i, "downstream_not_baselined") : Len(out[k].affectedIds) = 3

(***************************************************************************)
(* Claims about the gap recommendation synthesizer (checked under          *)
(* SpecGaps)                                                               *)
(***************************************************************************)
\* The list is in severity order, equal severities by descending
\* affectedCount, and the priorities are 1, 2, ..., n.
RankedList(recs) ==
    /\ \A k \in 1..(Len(recs) - 1) :
          \/ severityRank(recs[k].severity) < severityRank(recs[k + 1].severity)
          \/ /\ recs[k].severity = recs[k + 1].severity
             /\ recs[k].affectedCount >= recs[k + 1].affectedCount
    /\ \A k \in DOMAIN recs : recs[k].priority = k

\* Six dead ends, two orphans of high severity, an incomplete chain of a
\* critical record and a coverage gap of 5 points.
ScenarioReport ==
    [ReportOf(<<>>) EXCEPT
        !.orphanedRequirements =
            [k \in 1..6 |-> [id |-> k, category |-> "dead_end", severity |-> LOW]]
               \o << [id |-> 7, category |-> "true_orphan", severity |-> HIGH],
                     [id |-> 8, category |-> "true_orphan", severity |-> BLOCKER] >>,
        !.incompleteChains = << [startId |-> 1, severity |-> BLOCKER] >>,
        !.hierarchicalCoverage =
            << [linkType |-> "satisfies", percentage |-> 75, threshold |-> 80,
                meets_threshold |-> FALSE, missing |-> <<3>>] >>]

ScenarioRecommendations == generateGapRecommendations(ScenarioReport, <<>>)

\* C19: the returned list is sorted by severity rank, equal severities by
\* descending affectedCount, its priority fields are 1, 2, ..., n in list
\* order, and the empty report gives the empty list.
C19_RankedRecommendations ==
    /\ pc = "gaps" =>
          /\ RankedList(out)
          /\ cfg = ReportOf(<<>>) => out = <<>>
    /\ RankedList(ScenarioRecommendations)
    /\ mapField(ScenarioRecommendations, "severity") = <<HIGH, HIGH, MEDIUM, LOW>>
    /\ mapField(ScenarioRecommendations, "affectedCount") = <<2, 1, 6, 1>>

\* A BLOCKER recommendation emitted last is first, and of two HIGH
\* recommendations the one emitted later, with more affected ids, is ahead.
C19_Witness ==
    /\ pc = "gaps"
    /\ Len(out) = 3
    /\ out[1].severity = BLOCKER /\ out[1].category = "priority"
    /\ out[2].severity = HIGH /\ out[2].category = "status_consistency"
    /\ out[3].severity = HIGH /\ out[3].category = "coverage"
    /\ out[2].affectedCount > out[3].affectedCount

\* Some recommendation of the category, and of the severity if one is given,
\* has all the ids among its affected ids.
Recommended(category, severities, ids) ==
    \E k \in DOMAIN out :
        /\ out[k].category = category
        /\ out[k].severity \in severities
        /\ ids \subseteq SeqToSet(out[k].affectedIds)

AllSeverities == SeqToSet(SeverityOrder)

CyclesOfSeverity(sev) ==
    LET ofSev(c) == c.severity = sev IN SelectSeq(cfg.circularDependencies, ofSev)

InconsistenciesOfKind(kind) ==
    LET ofKind(i) == i.violation = kind IN SelectSeq(cfg.statusInconsistencies, ofKind)

BaselineIssuesOfKind(kind) ==
    LET ofKind(i) == i.issue = kind IN SelectSeq(cfg.baselineIssues, ofKind)

\* C20: for every cycle severity bucket, status violation kind and baseline
\* issue kind that occurs in the report, the output has a recommendation of
\* the group's category whose affected ids include the ids of the group's
\* findings (the nodes of the cycles, the downstream ids of the status
\* violations, the ids of the records with the baseline issue).
C20_NoGroupDropped ==
    pc = "gaps" =>
        /\ \A sev \in AllSeverities :
              CyclesOfSeverity(sev) # <<>> =>
                 Recommended("circular_dependency", {sev},
                     SeqToSet(flatten(mapField(CyclesOfSeverity(sev), "cycle"), 1)))
        /\ \A kind \in {"approved_to_draft", "implemented_to_draft", "baselined_to_draft"} :
              InconsistenciesOfKind(kind) # <<>> =>
                 Recommended("status_consistency", AllSeverities,
                     SeqToSet(mapField(InconsistenciesOfKind(kind), "toId")))
        /\ \A kind \in {"not_approved", "downstream_not_baselined", "version_conflict"} :
              BaselineIssuesOfKind(kind) # <<>> =>
                 Recommended("baseline", AllSeverities,
                     SeqToSet(mapField(BaselineIssuesOfKind(kind), "id")))

(***************************************************************************)
(* Claims about the orphan and chain buckets (checked under SpecBuckets)   *)
(***************************************************************************)
OrphansOfCategory(category) ==
    LET ofCategory(o) == o.category = category
    IN SelectSeq(cfg.orphanedRequirements, ofCategory)

CriticalOrphans ==
    LET critical(o) == o.category = "true_orphan" /\ o.severity \in {BLOCKER, HIGH}
    IN SelectSeq(cfg.orphanedRequirements, critical)

CriticalChains ==
    LET critical(c) == c.severity \in {BLOCKER, HIGH}
    IN SelectSeq(cfg.incompleteChains, critical)

RecommendationsOf(category, action) ==
    {k \in DOMAIN out : out[k].category = category /\ out[k].action = action}

\* C24: a dead-end recommendation is emitted iff the report has more than 5
\* dead_end orphans; a critical-orphan recommendation iff some true_orphan
\* has severity BLOCKER or HIGH; source_only orphans produce nothing; an
\* incomplete-chain recommendation iff some incomplete chain has severity
\* HIGH or BLOCKER, and it lists the start ids of those chains only.
C24_BucketThresholds ==
    pc = "gaps" =>
        LET deadEndRecs == RecommendationsOf("orphaned", "Add downstream traceability")
            criticalRecs == RecommendationsOf("orphaned", "Link critical orphaned requirements")
            chainRecs == {k \in DOMAIN out : out[k].category = "completeness"}
        IN /\ Cardinality(deadEndRecs) =
                 (IF Len(OrphansOfCategory("dead_end")) > 5 THEN 1 ELSE 0)
           /\ \A k \in deadEndRecs :
                 out[k].affectedIds = mapField(OrphansOfCategory("dead_end"), "id")
           /\ Cardinality(criticalRecs) = (IF CriticalOrphans # <<>> THEN 1 ELSE 0)
           /\ \A k \in criticalRecs : out[k].affectedIds = mapField(CriticalOrphans, "id")
           /\ \A k \in DOMAIN out :
                 out[k].category = "orphaned" => k \in deadEndRecs \cup criticalRecs
           /\ Cardinality(chainRecs) = (IF CriticalChains # <<>> THEN 1 ELSE 0)
           /\ \A k \in chainRecs : out[k].affectedIds = mapField(CriticalChains, "startId")

\* Exactly 5 dead ends, a source-only record, and two incomplete chains of
\* which one is of severity MEDIUM: only the chain recommendation, with one
\* start id.
C24_Witness ==
    /\ pc = "gaps"
    /\ Len(OrphansOfCategory("dead_end")) = 5
    /\ Len(OrphansOfCategory("source_only")) = 1
    /\ Len(cfg.incompleteChains) = 2
    /\ Len(out) = 1
    /\ out[1].category = "completeness"
    /\ out[1].affectedCount = 1

(***************************************************************************)
(* Claims about the affected ids (checked under SpecGaps)                  *)
(***************************************************************************)
NoRepeat(seq) == \A i \in DOMAIN seq, j \in DOMAIN seq : seq[i] = seq[j] => i = j

\* What the analyzers guarantee for records of unique ids: one orphan
\* finding, one incomplete chain and one not_approved issue per record at
\* most, and no record twice in a list of records missing coverage.
FromUniqueIds(report) ==
    LET isNotApproved(i) == i.issue = "not_approved"
    IN /\ NoRepeat(mapField(report.orphanedRequirements, "id"))
       /\ NoRepeat(mapField(report.incompleteChains, "startId"))
       /\ NoRepeat(mapField(SelectSeq(report.baselineIssues, isNotApproved), "id"))
       /\ \A k \in DOMAIN report.hierarchicalCoverage :
             NoRepeat(report.hierarchicalCoverage[k].missing)
       /\ \A k \in DOMAIN report.priorityWeightedCoverage :
             NoRepeat(report.priorityWeightedCoverage[k].missing)

\* C27: in every returned recommendation affectedCount is the number of
\* entries of affectedIds, and, for a report produced from records with
\* unique ids, affectedIds has no id twice.
C27_AffectedIdsCounted ==
    pc = "gaps" =>
        \A k \in DOMAIN out :
            /\ out[k].affectedCount = Len(out[k].affectedIds)
            /\ FromUniqueIds(cfg) => NoRepeat(out[k].affectedIds)

\* Two version conflicts share a record: the recommendation names three ids.
C27_Witness ==
    /\ pc = "gaps"
    /\ FromUniqueIds(cfg)
    /\ Len(BaselineIssuesOfKind("version_conflict")) = 2
    /\ \E k \in DOMAIN out :
          /\ out[k].action = "Resolve baseline version conflicts"
          /\ out[k].affectedIds = <<1, 2, 3>>
          /\ out[k].affectedCount = 3

(***************************************************************************)
(* Claims about the severity of incomplete chains (checked under           *)
(* SpecChainSeverity)                                                      *)
(***************************************************************************)
StartRecordOf(k) == getRequirementById(reqs, out[k].startId)

\* C26: every reported incomplete chain has exactly one entry in
\* missingLinks; its severity is BLOCKER when the priority of the start
\* record is critical and MEDIUM otherwise, never HIGH.
C26_OneBreakSeverity ==
    pc = "completeness" =>
        \A k \in DOMAIN out :
            /\ Len(out[k].missingLinks) = 1
            /\ out[k].severity =
                  (IF StartRecordOf(k).priority = "critical" THEN BLOCKER ELSE MEDIUM)
            /\ out[k].severity # HIGH

\* A start record of priority high reaches a "SYS" record and breaks there:
\* one missing link, severity MEDIUM.
C26_Witness ==
    /\ pc = "completeness"
    /\ \E k \in DOMAIN out :
          /\ StartRecordOf(k).priority = "high"
          /\ out[k].actualPath = <<"STK", "SYS">>
          /\ out[k].severity = MEDIUM

(***************************************************************************)
(* Claims about records without status (checked under SpecStatus)          *)
(***************************************************************************)
\* C30: detectStatusInconsistencies takes a missing status for draft at
\* both ends: with approved-chain enforcement on, every link from an
\* approved record to an existing record without status is reported as
\* approved_to_draft, and no link of a record without status is reported;
\* checkStatusConsistency reports no link with an end without status.
C30_MissingStatusIsDraft ==
    pc = "status" =>
        \A i \in DOMAIN reqs, j \in DOMAIN reqs :
            Linked(i, j) =>
               /\ ( /\ cfg.statusConsistency.enforceApprovedChain
                    /\ reqs[i].status = "approved"
                    /\ reqs[j].status = None )
                     => /\ Cardinality(InconsistenciesAbout(i, j)) =
                              Occurrences(AllTargets(reqs[i].links), reqs[j].id)
                        /\ \A k \in InconsistenciesAbout(i, j) :
                              /\ out.inconsistencies[k].violation = "approved_to_draft"
                              /\ out.inconsistencies[k].toStatus = "draft"
               /\ reqs[i].status = None => InconsistenciesAbout(i, j) = {}
               /\ (reqs[i].status = None \/ reqs[j].status = None) => IssuesAbout(i, j) = {}

\* An approved record links to a record without status: the deep checker
\* reports approved_to_draft, the older checker nothing, although approved
\* is in its vocabulary.
C30_Witness ==
    /\ pc = "status"
    /\ cfg.statusConsistency.enforceApprovedChain
    /\ "approved" \in SeqToSet(cfg.statusOrder)
    /\ "draft" \in SeqToSet(cfg.statusOrder)
    /\ \E i \in DOMAIN reqs, j \in DOMAIN reqs :
          /\ Linked(i, j)
          /\ reqs[i].status = "approved"
          /\ reqs[j].status = None
          /\ InconsistenciesAbout(i, j) # {}
          /\ IssuesAbout(i, j) = {}
          /\ out.issues = <<>>

(***************************************************************************)
(* Claims about the reported cycle paths (checked under SpecCycle)         *)
(***************************************************************************)
\* The strongly connected component of record a.
ComponentOf(a) ==
    {a} \cup {b \in ReachableFrom(a) : a \in ReachableFrom(b)}

CyclesThrough(component) ==
    {k \in DOMAIN cycles : SeqToSet(cycles[k].cycle) \cap component # {}}

TraverseStart == [chain |-> <<>>, visited |-> {}, entered |-> <<>>]

\* A variant that lets every id through twice.
visitedTwice(st, currentId) == Occurrences(st.entered, currentId) >= 2

\* visited.has(currentId)
alreadyVisited(st, currentId) == currentId \in st.visited

\* visited.add(currentId)
markVisited(st, currentId) ==
    [st EXCEPT !.visited = @ \cup {currentId}, !.entered = Append(@, currentId)]

\* reqMap.get(currentId): a Map built from the list keeps the last record of
\* an id.
reqMapGet(requirements, currentId) ==
    LET at == {i \in DOMAIN requirements : requirements[i].id = currentId}
    IN IF at = {} THEN NULL
       ELSE requirements[CHOOSE i \in at : \A j \in at : j <= i]

RECURSIVE traverseDownstream(_, _, _)
RECURSIVE traverseLinked(_, _, _, _)
\* for (const linkedId of linkedIds) { chain.push(linkedId); traverse(linkedId); }
traverseLinked(requirements, linked, k, st) ==
    IF k > Len(linked) THEN st
    ELSE traverseLinked(requirements, linked, k + 1,
            traverseDownstream(requirements, linked[k],
                [st EXCEPT !.chain = Append(@, linked[k])]))

traverseDownstream(requirements, currentId, st) ==
    IF alreadyVisited(st, currentId) THEN st
    ELSE LET req == reqMapGet(requirements, currentId)
             st1 == markVisited(st, currentId)
         IN IF req = NULL THEN st1
            ELSE traverseLinked(requirements, AllTargets(req.links), 1, st1)

RECURSIVE traverseUpstream(_, _, _)
RECURSIVE traverseLinking(_, _, _, _, _)
\* for (const req of requirements) for (const linkedIds of Object.values(req.links))
\*   if (linkedIds.includes(currentId)) { chain.push(req.id); traverse(req.id); }
traverseLinking(requirements, currentId, i, k, st) ==
    IF i > Len(requirements) THEN st
    ELSE IF k > Len(LinkTypeOrder)
         THEN traverseLinking(requirements, currentId, i + 1, 1, st)
         ELSE IF currentId \in SeqToSet(requirements[i].links[LinkTypeOrder[k]])
              THEN traverseLinking(requirements, currentId, i, k + 1,
                      traverseUpstream(requirements, requirements[i].id,
                          [st EXCEPT !.chain = Append(@, requirements[i].id)]))
              ELSE traverseLinking(requirements, currentId, i, k + 1, st)

traverseUpstream(requirements, currentId, st) ==
    IF alreadyVisited(st, currentId) THEN st
    ELSE traverseLinking(requirements, currentId, 1, 1, markVisited(st, currentId))

traverse(requirements, id, direction) ==
    IF direction = "downstream"
    THEN traverseDownstream(requirements, id, TraverseStart)
    ELSE traverseUpstream(requirements, id, TraverseStart)

getDependencyChain(id, requirements, direction) ==
    traverse(requirements, id, direction).chain

\* Records for the traversals: the record at an odd position is a "STK"
\* record and the one at an even position a "SYS" record, and a link goes to
\* any of these ids or to the id "SYS0" of no record, so that a list holds
\* cycles, self-loops and dangling links.
TraversalCode(i) == 1 + ((i + 1) % 2)

TraversalId(i) == TypedId(TraversalCode(i), i)

TraversalTargets == {TraversalId(i) : i \in 1..NumRecords} \cup {TypedId(2, 0)}

TraversalLinks ==
    {NoLinks} \cup {LinksTo("links", <<t>>) : t \in TraversalTargets}
        \cup {[links |-> <<a>>, satisfies |-> <<b>>] :
                 a \in TraversalTargets, b \in TraversalTargets}

TraversalRecords(linkList) ==
    [i \in DOMAIN linkList |->
        ChainRecord(TraversalCode(i), i, None, linkList[i])]

TraversalChains ==
    { <<"STK", "SYS">>, <<"STK", "SYS", "STK">>, <<"STK", "SYS", "STK", "SYS">> }

InitTraversal == \E l \in ListsOf(TraversalLinks) : IdleWith(TraversalRecords(l))

\* The three traversals over the record list: the component search, the chain
\* trace from every record, and the dependency chain of one id.
Traversal(id, direction, expectedChain) ==
    Ran("traversed",
        [id |-> id, direction |-> direction, expectedChain |-> expectedChain],
        [tarjan     |-> tarjanOver(buildGraph(reqs), 1, TarjanStart),
         traces     |-> [i \in DOMAIN reqs |->
                            traceChain(reqs, reqs[i].id, expectedChain)],
         dependency |-> traverse(reqs, id, direction)])

NextTraversal ==
    pc = "idle" /\ \E id \in TraversalTargets, direction \in {"upstream", "downstream"},
                      expectedChain \in TraversalChains :
                        Traversal(id, direction, expectedChain)

SpecTraversal == InitTraversal /\ [][NextTraversal]_vars

\* ---------------------------------------------------------------------------
\* Claims about the termination of the traversals
\* ---------------------------------------------------------------------------

\* The frontier steps of a trace: one per type appended to the path and one
\* for the break.
FrontierSteps(trace) == (Len(trace.actualPath) - 1) + Len(trace.missingLinks)

HasSelfLoop == \E i \in DOMAIN reqs : IsLink(reqs[i].id, reqs[i].id)

HasDanglingLink ==
    \E i \in DOMAIN reqs : \E t \in SeqToSet(AllTargets(reqs[i].links)) :
        t \notin RecordIds(reqs)

\* C23: on every finite record list, with cycles, self-loops and dangling
\* links, the three traversals end: strongConnect is entered once per node
\* (the index counter equals the number of indexed nodes, every record is
\* indexed and nothing stays on the stack), traceChain takes at most
\* (length of the expected sequence - 1) frontier steps, and
\* getDependencyChain expands no id twice, so that it expands at most the ids
\* of the list and the start id and pushes at most one id per link.
C23_TraversalsTerminate ==
    pc = "traversed" =>
        /\ out.tarjan.index = Cardinality(DOMAIN out.tarjan.indices)
        /\ RecordIds(reqs) \subseteq DOMAIN out.tarjan.indices
        /\ DOMAIN out.tarjan.indices \subseteq RecordIds(reqs) \cup TraversalTargets
        /\ out.tarjan.stack = <<>>
        /\ \A i \in DOMAIN reqs :
              FrontierSteps(out.traces[i]) <= Len(cfg.expectedChain) - 1
        /\ NoRepeat(out.dependency.entered)
        /\ SeqToSet(out.dependency.entered) \subseteq
              RecordIds(reqs) \cup TraversalTargets
        /\ Len(out.dependency.chain) <= CountLinks(reqs, 1)

\* A list with a self-loop and a dangling link whose dependency chain comes
\* back to the id it started from.
C23_Witness ==
    /\ pc = "traversed"
    /\ HasSelfLoop
    /\ HasDanglingLink
    /\ cfg.id \in SeqToSet(out.dependency.chain)
    /\ Len(out.dependency.entered) >= 2


\* ---------------------------------------------------------------------------
\* Index cache (indexCache.ts)
\* ---------------------------------------------------------------------------
CACHE_VERSION == 1

\* A configuration is modelled by a string value, given by its character
\* codes: "Aa", "BB", "Ab" and "zzzzzzz".
Configs == { <<65, 97>>, <<66, 66>>, <<65, 98>>, <<122, 122, 122, 122, 122, 122, 122>> }

\* JSON.stringify of a string without characters to escape: the value in
\* double quotes.
stringifyConfig(config) == <<34>> \o config \o <<34>>

\* hash = ((hash << 5) - hash) + char; hash = hash & hash
\* The 32-bit value is kept as two 16-bit halves <<high, low>>.
hashStep(hash, char) ==
    LET low == 31 * hash[2] + char
        high == 31 * hash[1] + (low \div 65536)
    IN <<high % 65536, low % 65536>>

RECURSIVE hashFrom(_, _, _)
hashFrom(str, i, hash) ==
    IF i > Len(str) THEN hash ELSE hashFrom(str, i + 1, hashStep(hash, str[i]))

RECURSIVE hexDigits(_)
hexDigits(n) == IF n = 0 THEN <<>> ELSE Append(hexDigits(n \div 16), n % 16)

RECURSIVE padZeros(_, _)
padZeros(digits, width) ==
    IF Len(digits) >= width THEN digits ELSE padZeros(<<0>> \o digits, width)

\* Number.prototype.toString(16) of a signed 32-bit value: a sign and the
\* hexadecimal digits of the magnitude without leading zeros.
toString16(hash) ==
    LET negative == hash[1] >= 32768
        low  == IF negative THEN (65536 - hash[2]) % 65536 ELSE hash[2]
        high == IF negative
                THEN (65535 - hash[1] + (IF hash[2] = 0 THEN 1 ELSE 0)) % 65536
                ELSE hash[1]
    IN [negative |-> negative,
        digits   |-> IF high = 0
                     THEN (IF low = 0 THEN <<0>> ELSE hexDigits(low))
                     ELSE hexDigits(high) \o padZeros(hexDigits(low), 4)]

hashConfig(config) == toString16(hashFrom(stringifyConfig(config), 1, <<0, 0>>))

\* JSON.stringify leaves out a property whose value is undefined; reading a
\* property that an object lacks gives undefined.
OptionalFields == {"level", "status", "baseline"}

stringifyObject(obj) ==
    [f \in {g \in DOMAIN obj : g \in OptionalFields => obj[g] # None} |-> obj[f]]

parseObject(text) ==
    [f \in DOMAIN text \cup OptionalFields |-> IF f \in DOMAIN text THEN text[f] ELSE None]

RECURSIVE entriesFrom(_, _)
\* Array.from(objects.entries()), the ids in ascending order.
entriesFrom(objects, i) ==
    IF i > NumIndexIds THEN <<>>
    ELSE (IF objects[i] = NULL THEN <<>> ELSE << <<i, objects[i]>> >>)
            \o entriesFrom(objects, i + 1)

\* exportData(): the entries of the primary map and of the reference map; the
\* index of this model holds no references.
exportData(ix) == [objects |-> entriesFrom(ix.objects, 1), references |-> <<>>]

\* A variant of importData that restores the primary map and nothing else.
importObjectsOnly(ix, data) ==
    [EmptyIndex EXCEPT !.objects =
        [i \in IndexIds |->
            IF \E k \in DOMAIN data.objects : data.objects[k][1] = i
            THEN data.objects[CHOOSE k \in DOMAIN data.objects : data.objects[k][1] = i][2]
            ELSE NULL]]

RECURSIVE importEntries(_, _, _)
importEntries(ix, entries, k) ==
    IF k > Len(entries) THEN ix
    ELSE importEntries(upsert(ix, entries[k][2]), entries, k + 1)

\* importData(data): the held state is dropped and every entry is entered, the
\* secondary indexes and linkGraph with it.
importData(ix, data) == importEntries(EmptyIndex, data.objects, 1)

\* The text of the cache file: JSON.stringify(cacheData, null, 2).
stringifyCache(cacheData) ==
    [kind       |-> "json",
     version    |-> cacheData.version,
     timestamp  |-> cacheData.timestamp,
     configHash |-> cacheData.configHash,
     objects    |-> [k \in DOMAIN cacheData.objects |->
                        <<cacheData.objects[k][1], stringifyObject(cacheData.objects[k][2])>>],
     references |-> cacheData.references]

\* JSON.parse(content): throws on a text that is no JSON, gives null for the
\* text "null".
parseThrows(content) == content.kind = "garbage"

parseCache(content) ==
    IF content.kind = "null" THEN [kind |-> "null"]
    ELSE [kind       |-> "object",
          version    |-> content.version,
          timestamp  |-> content.timestamp,
          configHash |-> content.configHash,
          objects    |-> [k \in DOMAIN content.objects |->
                            <<content.objects[k][1], parseObject(content.objects[k][2])>>],
          references |-> content.references]

NoFile == [exists |-> FALSE]

\* stat fails for an RST file of this kind; the other kinds are the
\* modification times.
StatFails == -1

\* vscode.workspace.findFiles('**/*.rst', '**/node_modules/**', 100)
MaxFindResults == 100

RECURSIVE CountFiles(_, _)
CountFiles(rst, kinds) ==
    IF kinds = {} THEN 0
    ELSE LET k == CHOOSE x \in kinds : TRUE
         IN rst[k] + CountFiles(rst, kinds \ {k})

\* The kinds of file among the files findFiles returns: at most
\* MaxFindResults files, all of them when there are no more than that, and
\* otherwise any MaxFindResults of them.
CanFind(rst, found) ==
    LET total == CountFiles(rst, DOMAIN rst)
        size  == IF total < MaxFindResults THEN total ELSE MaxFindResults
    IN /\ found \subseteq {k \in DOMAIN rst : rst[k] > 0}
       /\ Cardinality(found) <= size
       /\ size <= CountFiles(rst, found)

\* saveIndexCache: the cache file after the call; a failed write is caught and
\* leaves the file as it was.
saveIndexCache(ws, builder, config, writeFails) ==
    LET cacheData == [version    |-> CACHE_VERSION,
                      timestamp  |-> ws.now,
                      configHash |-> hashConfig(config)] @@ exportData(builder)
    IN IF writeFails THEN ws
       ELSE [ws EXCEPT !.cache = [exists |-> TRUE, readable |-> TRUE,
                                  content |-> stringifyCache(cacheData)]]

\* stat.mtimeMs > cacheTime, for a file whose stat succeeds
isNewer(mtime, cacheTime) == mtime # StatFails /\ mtime > cacheTime

\* loadIndexCache: the returned value, the state of the index builder after
\* the call and whether importData was called.
loadIndexCache(ws, builder, config, found) ==
    LET rejected == [result |-> FALSE, index |-> builder, imported |-> FALSE]
    IN IF ~ws.cache.exists THEN rejected
       ELSE IF ~ws.cache.readable THEN rejected
       ELSE IF parseThrows(ws.cache.content) THEN rejected
       ELSE LET cacheData == parseCache(ws.cache.content)
            IN IF cacheData.kind = "null" THEN rejected
               ELSE IF cacheData.version # CACHE_VERSION THEN rejected
               ELSE IF cacheData.configHash # hashConfig(config) THEN rejected
               ELSE IF ws.searchFails THEN rejected
               ELSE IF \E mtime \in found : isNewer(mtime, cacheData.timestamp)
                    THEN rejected
                    ELSE [result   |-> TRUE,
                          index    |-> importData(builder,
                                          [objects    |-> cacheData.objects,
                                           references |-> cacheData.references]),
                          imported |-> TRUE]

\* The variables the cache does not use, at rest.
CacheIdle ==
    /\ lastOp = [kind |-> "init"]
    /\ lastFault = NULL
    /\ reqs = <<>>
    /\ pc = "idle"
    /\ cycles = <<>>
    /\ dfsCycles = <<>>
    /\ minArgs = <<0, 0>>
    /\ minCycle = NULL
    /\ cfg = NULL
    /\ out = NULL
    /\ manager = NULL

\* --- a snapshot saved and loaded again ------------------------------------
\* The index is fed as in Spec; it is then saved, and the cache is loaded
\* into a fresh index builder, whose state is kept in out.
InitSnapshot ==
    /\ CacheIdle
    /\ index = EmptyIndex
    /\ workspace = [now |-> 1, cache |-> NoFile, searchFails |-> FALSE,
                    rst |-> [k \in {0, 1} |-> 1]]

Feed ==
    /\ pc = "idle"
    /\ \/ \E rec \in RecordPool : Upsert(rec)
       \/ \E file \in Files : RemoveByFile(file)

SaveIndexCache(config, writeFails) ==
    /\ pc = "idle"
    /\ pc' = "saved"
    /\ workspace' = saveIndexCache(workspace, index, config, writeFails)
    /\ cfg' = [saved |-> config]
    /\ UNCHANGED <<index, lastOp, lastFault, reqs, cycles, dfsCycles, minArgs, minCycle,
                   out, manager>>

LoadSnapshot(config, found) ==
    /\ pc = "saved"
    /\ CanFind(workspace.rst, found)
    /\ pc' = "loaded"
    /\ cfg' = [saved |-> cfg.saved, loaded |-> config]
    /\ out' = loadIndexCache(workspace, EmptyIndex, config, found)
    /\ UNCHANGED <<index, lastOp, lastFault, reqs, cycles, dfsCycles, minArgs, minCycle,
                   workspace, manager>>

NextSnapshot ==
    \/ Feed
    \/ \E config \in Configs, writeFails \in BOOLEAN : SaveIndexCache(config, writeFails)
    \/ \E config \in Configs, found \in SUBSET {0, 1} : LoadSnapshot(config, found)

SpecSnapshot == InitSnapshot /\ [][NextSnapshot]_vars


\* ---------------------------------------------------------------------------
\* Claims about the saved and loaded snapshot
\* ---------------------------------------------------------------------------

\* Every query of the index: by id, by file, type, level, status and
\* baseline, and the linkGraph neighbours of an id.
SameAnswers(a, b) ==
    /\ \A i \in IndexIds : a.objects[i] = b.objects[i]
    /\ \A f \in Files : a.fileIndex[f] = b.fileIndex[f]
    /\ \A t \in Types : a.typeIndex[t] = b.typeIndex[t]
    /\ \A l \in Levels : a.levelIndex[l] = b.levelIndex[l]
    /\ \A st \in Statuses : a.statusIndex[st] = b.statusIndex[st]
    /\ \A bl \in Baselines : a.baselines[bl] = b.baselines[bl]
    /\ \A i \in IndexIds : a.linkGraph[i] = b.linkGraph[i]

\* C21: an index saved by saveIndexCache and loaded by loadIndexCache under
\* the same configuration into a fresh index builder is loaded (true is
\* returned) and answers every query as the saved index does, right after the
\* import; whenever a load succeeds the answers are those of the saved index.
C21_SnapshotRoundTrip ==
    pc = "loaded" /\ workspace.cache.exists =>
        /\ cfg.loaded = cfg.saved => out.result
        /\ out.result => out.imported /\ SameAnswers(out.index, index)

\* Two records held, one without baseline (a property the cache file leaves
\* out) and one linking to the other, saved and loaded.
C21_Witness ==
    /\ pc = "loaded"
    /\ out.result
    /\ \A i \in IndexIds : index.objects[i] # NULL
    /\ \E i \in IndexIds : index.objects[i].baseline = None
    /\ \E i \in IndexIds : index.objects[i].baseline # None
    /\ \E i \in IndexIds : index.linkGraph[i] # {}
    /\ Len(workspace.cache.content.objects) = NumIndexIds


\* ---------------------------------------------------------------------------
\* loadIndexCache over the states of the workspace
\* ---------------------------------------------------------------------------
HeldIndex ==
    upsert(EmptyIndex, [id |-> 1, file |-> "index.rst", type |-> "requirement",
                        level |-> "system", status |-> "draft", baseline |-> None,
                        links |-> NoLinks])

CachedIndex ==
    upsert(EmptyIndex, [id |-> 2, file |-> "requirements.rst", type |-> "design_element",
                        level |-> "component", status |-> "approved",
                        baseline |-> "v1.0.0", links |-> LinksTo("links", <<1>>)])

\* The cache files: none, one that cannot be read, one that is no JSON, the
\* JSON text "null", and the files saveIndexCache writes at time 1, under
\* this version of the cache or the next, for any configuration.
CacheFiles ==
    {NoFile}
      \cup {[exists |-> TRUE, readable |-> r, content |-> [kind |-> k]] :
               r \in BOOLEAN, k \in {"garbage", "null"}}
      \cup {[exists |-> TRUE, readable |-> TRUE,
             content |-> stringifyCache(
                 [version |-> v, timestamp |-> 1, configHash |-> hashConfig(c)]
                     @@ exportData(CachedIndex))] :
               v \in {CACHE_VERSION, CACHE_VERSION + 1}, c \in Configs}

\* The RST files by kind: modified at 0, 1 or 2, or with a failing stat; no
\* file of a kind, one, or as many as findFiles returns at most.
RstKinds == {0, 1, 2, StatFails}

RstFiles == [RstKinds -> {0, 1, MaxFindResults}]

InitLoad ==
    /\ CacheIdle
    /\ index \in {EmptyIndex, HeldIndex}
    /\ \E c \in CacheFiles, rst \in RstFiles, searchFails \in BOOLEAN :
          workspace = [now |-> 2, cache |-> c, searchFails |-> searchFails, rst |-> rst]

LoadIndexCache(config, found) ==
    /\ pc = "idle"
    /\ CanFind(workspace.rst, found)
    /\ LET r == loadIndexCache(workspace, index, config, found)
       IN /\ index' = r.index
          /\ out' = [result |-> r.result, imported |-> r.imported]
    /\ pc' = "loaded"
    /\ cfg' = [config |-> config, found |-> found, before |-> index]
    /\ UNCHANGED <<lastOp, lastFault, reqs, cycles, dfsCycles, minArgs, minCycle,
                   workspace, manager>>

NextLoad == \E config \in Configs, found \in SUBSET RstKinds : LoadIndexCache(config, found)

SpecLoad == InitLoad /\ [][NextLoad]_vars

\* ---------------------------------------------------------------------------
\* Claims about the validity of the cache
\* ---------------------------------------------------------------------------
CacheReadable ==
    /\ workspace.cache.exists
    /\ workspace.cache.readable
    /\ workspace.cache.content.kind = "json"

CacheMatches(config) ==
    /\ CacheReadable
    /\ workspace.cache.content.version = CACHE_VERSION
    /\ workspace.cache.content.configHash = hashConfig(config)

NewerAmong(kinds) ==
    \E mtime \in kinds : /\ workspace.rst[mtime] > 0
                         /\ mtime # StatFails
                         /\ mtime > workspace.cache.content.timestamp

\* What loadIndexCache does hold to: it imports and returns true only for a
\* readable cache of this version and of the hash of the configuration with
\* no newer file among the files the search returned, and it returns false and
\* leaves the index alone in every other case.
LoadChecksFoundFiles ==
    pc = "loaded" =>
        /\ out.result <=> /\ CacheMatches(cfg.config)
                          /\ ~workspace.searchFails
                          /\ ~NewerAmong(cfg.found)
        /\ out.result <=> out.imported
        /\ ~out.result => index = cfg.before

\* C28: loadIndexCache imports and returns true only when the cache file
\* exists, has the current version and the hash of the current
\* configuration, and no RST file of the workspace was modified after the
\* cache timestamp; in every other case it returns false, does not call
\* importData and leaves the index as it was.
C28_LoadsOnlyValidCache ==
    pc = "loaded" =>
        /\ out.result => /\ out.imported
                         /\ CacheMatches(cfg.config)
                         /\ ~NewerAmong(RstKinds)
        /\ ~out.result => ~out.imported /\ index = cfg.before


\* ---------------------------------------------------------------------------
\* IndexCacheManager (indexCache.ts): the debounced save
\* ---------------------------------------------------------------------------
\* Time is counted in seconds; a timer fires when it is due, before the
\* clock moves on.
DebounceWindow == 5

MaxTime == 11
MaxEvents == 4

\* private saveTimer: NodeJS.Timeout | null = null
NoTimer == 0

\* clearTimeout(handle): the timer of this handle is pending no more.
clearTimeout(pending, handle) == {t \in pending : t.handle # handle}

\* A variant of scheduleSave that leaves the pending timer alone.
scheduleSaveKeepingTimer(m, now) ==
    [m EXCEPT !.pending = @ \cup {[handle |-> m.handles + 1, due |-> now + DebounceWindow]},
              !.saveTimer = m.handles + 1,
              !.handles = m.handles + 1]

\* scheduleSave(): the pending timer is cleared and a new one is set.
scheduleSave(m, now) ==
    LET cleared == IF m.saveTimer # NoTimer
                   THEN clearTimeout(m.pending, m.saveTimer) ELSE m.pending
    IN [m EXCEPT !.pending = cleared \cup
                                {[handle |-> m.handles + 1, due |-> now + DebounceWindow]},
                 !.saveTimer = m.handles + 1,
                 !.handles = m.handles + 1]

\* save(), up to the call of saveIndexCache
cancelSaveTimer(m) ==
    IF m.saveTimer # NoTimer
    THEN [m EXCEPT !.pending = clearTimeout(@, m.saveTimer), !.saveTimer = NoTimer]
    ELSE m

\* dispose(): the timer is cleared (saveTimer keeps the handle) and the
\* subscription to the index updates ends.
dispose(m) ==
    [m EXCEPT !.pending = IF m.saveTimer # NoTimer THEN clearTimeout(@, m.saveTimer) ELSE @,
              !.subscribed = FALSE]

Logged(m, kind, now) == [m EXCEPT !.log = Append(@, [kind |-> kind, at |-> now])]

InitManager ==
    /\ lastOp = [kind |-> "init"]
    /\ lastFault = NULL
    /\ reqs = <<>>
    /\ pc = "idle"
    /\ cycles = <<>>
    /\ dfsCycles = <<>>
    /\ minArgs = <<0, 0>>
    /\ minCycle = NULL
    /\ cfg = NULL
    /\ out = NULL
    /\ index = HeldIndex
    /\ workspace = [now |-> 0, cache |-> NoFile, searchFails |-> FALSE,
                    rst |-> [k \in {0} |-> 1]]
    /\ manager = [saveTimer |-> NoTimer, subscribed |-> TRUE, config |-> <<65, 97>>,
                  handles |-> 0, pending |-> {}, log |-> <<>>]

ManagerStep == UNCHANGED <<index, lastOp, lastFault, reqs, pc, cycles, dfsCycles,
                           minArgs, minCycle, cfg, out>>

\* An index update reaches the subscriber of the constructor.
Notify ==
    /\ manager.subscribed
    /\ Len(manager.log) < MaxEvents
    /\ manager' = Logged(scheduleSave(manager, workspace.now), "notify", workspace.now)
    /\ UNCHANGED workspace
    /\ ManagerStep

\* The timer is due: its callback calls save().
TimerFires(writeFails) ==
    /\ \E t \in manager.pending :
          /\ t.due <= workspace.now
          /\ manager' = Logged(cancelSaveTimer([manager EXCEPT !.pending = @ \ {t}]),
                               "timerSave", workspace.now)
    /\ workspace' = saveIndexCache(workspace, index, manager.config, writeFails)
    /\ ManagerStep

\* save() called by the extension.
Save(writeFails) ==
    /\ Len(manager.log) < MaxEvents
    /\ manager' = Logged(cancelSaveTimer(manager), "save", workspace.now)
    /\ workspace' = saveIndexCache(workspace, index, manager.config, writeFails)
    /\ ManagerStep

Dispose ==
    /\ manager.subscribed
    /\ Len(manager.log) < MaxEvents
    /\ manager' = Logged(dispose(manager), "dispose", workspace.now)
    /\ UNCHANGED workspace
    /\ ManagerStep

\* A second passes; no timer is overdue.
Tick ==
    /\ workspace.now < MaxTime
    /\ \A t \in manager.pending : t.due > workspace.now
    /\ workspace' = [workspace EXCEPT !.now = @ + 1]
    /\ UNCHANGED manager
    /\ ManagerStep

NextManager ==
    \/ Notify
    \/ \E writeFails \in BOOLEAN : TimerFires(writeFails)
    \/ \E writeFails \in BOOLEAN : Save(writeFails)
    \/ Dispose
    \/ Tick

SpecManager == InitManager /\ [][NextManager]_vars


\* ---------------------------------------------------------------------------
\* Claims about the debounced save
\* ---------------------------------------------------------------------------
EventIs(i, kind) == manager.log[i].kind = kind

\* C22: at every moment at most one save timer is pending; after an explicit
\* save() or dispose() none is pending; no timer-driven save comes between
\* two notifications less than the debounce window apart; a timer-driven
\* save comes right after a notification and exactly one window after it;
\* and a notification is followed, within the window, by another event that
\* resets or cancels the timer, or else by the timer-driven save at the end
\* of the window (until then its timer is the pending one).
C22_DebouncedSave ==
    LET log == manager.log
    IN /\ Cardinality(manager.pending) <= 1
       /\ (log # <<>> /\ log[Len(log)].kind \in {"save", "dispose", "timerSave"})
             => manager.pending = {}
       /\ \A i \in DOMAIN log, j \in DOMAIN log, k \in DOMAIN log :
             (/\ i < j /\ j < k
              /\ EventIs(i, "notify") /\ EventIs(k, "notify")
              /\ log[k].at - log[i].at < DebounceWindow)
                => ~EventIs(j, "timerSave")
       /\ \A j \in DOMAIN log :
             EventIs(j, "timerSave") =>
                /\ j > 1
                /\ EventIs(j - 1, "notify")
                /\ log[j].at = log[j - 1].at + DebounceWindow
       /\ \A i \in DOMAIN log :
             EventIs(i, "notify") =>
                IF i = Len(log)
                THEN /\ workspace.now <= log[i].at + DebounceWindow
                     /\ \E t \in manager.pending : t.due = log[i].at + DebounceWindow
                ELSE \/ log[i + 1].kind # "timerSave"
                        /\ log[i + 1].at <= log[i].at + DebounceWindow
                     \/ EventIs(i + 1, "timerSave")
                        /\ log[i + 1].at = log[i].at + DebounceWindow

\* Two notifications less than a window apart and the one timer-driven save
\* a window after the second.
C22_Witness ==
    /\ Len(manager.log) = 3
    /\ EventIs(1, "notify")
    /\ EventIs(2, "notify")
    /\ EventIs(3, "timerSave")
    /\ manager.log[2].at > manager.log[1].at
    /\ manager.log[2].at - manager.log[1].at < DebounceWindow
    /\ manager.log[3].at = manager.log[2].at + DebounceWindow
    /\ workspace.cache.exists


\* ---------------------------------------------------------------------------
\* Id generator (generateNextId)
\* ---------------------------------------------------------------------------
\* An id is a string, modelled by the sequence of its characters.
DigitChars == <<"0", "1", "2", "3", "4", "5", "6", "7", "8", "9">>

IsDigit(c) == \E d \in DOMAIN DigitChars : DigitChars[d] = c

digitValue(c) == (CHOOSE d \in DOMAIN DigitChars : DigitChars[d] = c) - 1

RECURSIVE numToString(_)
\* num.toString() of a number that is not negative
numToString(num) ==
    IF num < 10 THEN <<DigitChars[num + 1]>>
    ELSE Append(numToString(num \div 10), DigitChars[(num % 10) + 1])

RECURSIVE padStart(_, _)
\* str.padStart(padding, '0'): a longer string is left as it is.
padStart(str, padding) ==
    IF Len(str) >= padding THEN str ELSE padStart(<<"0">> \o str, padding)

\* formatId(idConfig, num): prefix, separator and the padded number.
formatId(idConfig, num) ==
    idConfig.prefix \o idConfig.separator \o padStart(numToString(num), idConfig.padding)

RECURSIVE parseDigits(_, _, _)
parseDigits(str, i, value) ==
    IF i > Len(str) THEN value
    ELSE parseDigits(str, i + 1, 10 * value + digitValue(str[i]))

\* parseIdNumber gives null for an id that is not of the format.
NoNumber == -1

\* parseIdNumber(idConfig, id): the number of an id made of the prefix, the
\* separator and decimal digits.
parseIdNumber(idConfig, id) ==
    LET lead == idConfig.prefix \o idConfig.separator
        rest == SubSeq(id, Len(lead) + 1, Len(id))
    IN IF /\ Len(id) > Len(lead)
          /\ SubSeq(id, 1, Len(lead)) = lead
          /\ \A k \in DOMAIN rest : IsDigit(rest[k])
       THEN parseDigits(rest, 1, 0)
       ELSE NoNumber

\* A variant that stops at the first record.
maxNumOfFirst(idConfig, existingRequirements, i, maxNum) ==
    IF existingRequirements = <<>> THEN maxNum
    ELSE LET num == parseIdNumber(idConfig, existingRequirements[1].id)
         IN IF num # NoNumber /\ num > maxNum THEN num ELSE maxNum

RECURSIVE maxNumFrom(_, _, _, _)
\* for (const req of existingRequirements) { ... if (num !== null && num > maxNum) maxNum = num }
maxNumFrom(idConfig, existingRequirements, i, maxNum) ==
    IF i > Len(existingRequirements) THEN maxNum
    ELSE LET num == parseIdNumber(idConfig, existingRequirements[i].id)
         IN maxNumFrom(idConfig, existingRequirements, i + 1,
                       IF num # NoNumber /\ num > maxNum THEN num ELSE maxNum)

generateNextId(idConfig, existingRequirements) ==
    IF Len(existingRequirements) = 0
    THEN formatId(idConfig, idConfig.start)
    ELSE LET maxNum == maxNumFrom(idConfig, existingRequirements, 1, 0)
             nextNum == IF maxNum + 1 > idConfig.start THEN maxNum + 1 ELSE idConfig.start
         IN formatId(idConfig, nextNum)

\* The id configurations: no prefix or the prefix "R" with the separator
\* "-", one or two digits, numbers from 1 or from 3.
IdConfigs ==
    { [prefix |-> p[1], separator |-> p[2], padding |-> w, start |-> st] :
         p \in { << <<>>, <<>> >>, << <<"R">>, <<"-">> >> }, w \in 1..2, st \in {1, 3} }

\* The ids of the existing records: nothing, "R" or "R-" followed by no
\* digit, one or two of the digits 0, 1 and 9.
IdDigits == UNION {[1..n -> {"0", "1", "9"}] : n \in 0..2}

ExistingIds == {h \o d : h \in {<<>>, <<"R">>, <<"R", "-">>}, d \in IdDigits}

InitIds == \E l \in ListsOf({[id |-> x] : x \in ExistingIds}) : IdleWith(l)

GenerateNextId(idConfig) == Ran("generated", idConfig, generateNextId(idConfig, reqs))

NextIds == pc = "idle" /\ \E idConfig \in IdConfigs : GenerateNextId(idConfig)

SpecIds == InitIds /\ [][NextIds]_vars

\* ---------------------------------------------------------------------------
\* Claims about the generated id
\* ---------------------------------------------------------------------------
ParsedNumbers ==
    {parseIdNumber(cfg, reqs[i].id) : i \in DOMAIN reqs} \ {NoNumber}

Highest(numbers) == CHOOSE n \in numbers : \A m \in numbers : m <= n

\* C29: the generated id is the id of no existing record; its number is the
\* highest number of the existing ids that parse under the id configuration
\* plus one, or the configured start if that is greater (the start when no
\* existing id parses), so it is greater than every existing number and at
\* least the start; with no existing record it is the formatted start.
C29_NextIdIsNew ==
    pc = "generated" =>
        LET number == parseIdNumber(cfg, out)
        IN /\ \A i \in DOMAIN reqs : reqs[i].id # out
           /\ number # NoNumber
           /\ out = formatId(cfg, number)
           /\ number >= cfg.start
           /\ \A n \in ParsedNumbers : number > n
           /\ number = IF ParsedNumbers = {} THEN cfg.start
                       ELSE IF Highest(ParsedNumbers) + 1 > cfg.start
                            THEN Highest(ParsedNumbers) + 1 ELSE cfg.start
           /\ reqs = <<>> => out = formatId(cfg, cfg.start)

\* The highest existing number is that of the first record and fills the
\* configured width, next to an id that does not parse: the generated id is
\* one digit longer.
C29_Witness ==
    /\ pc = "generated"
    /\ Len(reqs) = 2
    /\ parseIdNumber(cfg, reqs[1].id) = 9
    /\ parseIdNumber(cfg, reqs[2].id) = NoNumber
    /\ cfg.padding = 1
    /\ cfg.prefix # <<>>
    /\ out = <<"R", "-", "1", "0">>

====
